---- MODULE Spec2Model ----
(***************************************************************************)
(* Cascading-precision power method (algorithms/power_method/cascading.py) *)
(* and the instrumented single-precision tracer (instrumented.py).         *)
(*                                                                         *)
(* Numbers.  The code works on IEEE floats; the model works on exact       *)
(* decimals.  An eigenvalue is an integer count of 10^-6, a residual norm  *)
(* and a vector norm are integer counts of 10^-10, and every quantity that *)
(* is compared is a Real [num, den, e] standing for num / (den * 10^e).    *)
(* Comparisons are exact and never leave the 32-bit integer range.         *)
(*                                                                         *)
(* Linear algebra.  The products A @ x, the norm, the Rayleigh quotient    *)
(* and the residual of one loop body are inputs: the run is given, at      *)
(* Init, the sequence of (norm, eigenvalue, residual_norm) triples that    *)
(* the matrix and the start vector produce (sched), and each loop body     *)
(* reads the next one.  Everything the code decides from those numbers is  *)
(* computed as the code computes it.                                       *)
(***************************************************************************)
EXTENDS Integers, Sequences, FiniteSets, TLC

(***************************************************************************)
(* Exact decimal arithmetic                                                *)
(***************************************************************************)
Abs(v) == IF v < 0 THEN -v ELSE v

RECURSIVE DivPow10(_, _)
\* floor(x / 10^k) for x >= 0, k >= 0, by k divisions by ten
DivPow10(x, k) == IF k = 0 \/ x = 0 THEN x ELSE DivPow10(x \div 10, k - 1)

\* a * 10^p < b * 10^q   (a, b, p, q >= 0)
ScaledLt(a, p, b, q) ==
    IF p >= q
    THEN b >= 1 /\ a <= DivPow10(b - 1, p - q)
    ELSE ~ (b <= DivPow10(a, q - p))

\* the Real num / (den * 10^e), num >= 0, den >= 1, e >= 0
Real(num, den, e) == [num |-> num, den |-> den, e |-> e]

\* the decimal literal m e-k of the source, e.g. 5e-2 is Dec(5, 2)
Dec(m, k) == Real(m, 1, k)

\* an eigenvalue magnitude (count of 10^-6) as a Real
Eig(v) == Real(Abs(v), 1, 6)

\* a residual norm or vector norm (count of 10^-10) as a Real
Res(r) == Real(r, 1, 10)

\* x < y on Reals
Lt(x, y) ==
    IF x.den = y.den
    THEN ScaledLt(x.num, y.e, y.num, x.e)
    ELSE ScaledLt(x.num * y.den, y.e, y.num * x.den, x.e)

\* x <= y on Reals
Le(x, y) == ~ Lt(y, x)

(***************************************************************************)
(* Class data of CascadingPowerMethod                                      *)
(***************************************************************************)
PRECISION_CASCADE ==
    << [name |-> "FP8",  dtype |-> "float32", simulate_fp8 |-> TRUE,
        threshold |-> Dec(5, 2), max_stagnant |-> 10],
       [name |-> "FP16", dtype |-> "float16", simulate_fp8 |-> FALSE,
        threshold |-> Dec(1, 3), max_stagnant |-> 20],
       [name |-> "FP32", dtype |-> "float32", simulate_fp8 |-> FALSE,
        threshold |-> Dec(1, 7), max_stagnant |-> 50],
       [name |-> "FP64", dtype |-> "float64", simulate_fp8 |-> FALSE,
        threshold |-> Dec(1, 15), max_stagnant |-> 100] >>

PRECISION_TOLERANCES ==
    [FP8  |-> [eigenvalue_tol |-> Dec(5, 2),  residual_tol |-> Dec(1, 1)],
     FP16 |-> [eigenvalue_tol |-> Dec(1, 3),  residual_tol |-> Dec(1, 2)],
     FP32 |-> [eigenvalue_tol |-> Dec(1, 6),  residual_tol |-> Dec(1, 5)],
     FP64 |-> [eigenvalue_tol |-> Dec(1, 12), residual_tol |-> Dec(1, 11)]]

\* norm < 1e-10 ends the loop (cascading.py:313)
NORM_EPS == Dec(1, 10)

\* abs(residual_improvement) < 1e-10 counts as stagnant (cascading.py:382)
STAGNATION_EPS == Dec(1, 10)

\* abs(eigenvalue_old) > 1e-14 selects the relative change (cascading.py:446)
EIGENVALUE_OLD_EPS == Dec(1, 14)

\* float("inf"), the initial last_error (cascading.py:290)
INF == -1

(***************************************************************************)
(* Vectors.  A vector is known by where it was computed (id: the number of *)
(* the tier, from 1, and the iteration of that tier; <<0, 0>> is the       *)
(* random start vector), the dtype it is held in, and the number of        *)
(* significant bits it can still carry.                                    *)
(***************************************************************************)
DTYPE_BITS == [float16 |-> 11, float32 |-> 24, float64 |-> 53]

Min(a, b) == IF a <= b THEN a ELSE b

\* numpy ndarray.astype: rounds to the target format
astype(x, dtype) ==
    [id |-> x.id, dtype |-> dtype, bits |-> Min(x.bits, DTYPE_BITS[dtype])]

\* np.random.randn(n).astype(np.float64), normalised (cascading.py:113-114)
RandomVector == [id |-> <<0, 0>>, dtype |-> "float64", bits |-> 53]

\* x_new = (A_compute @ x_compute) / norm, computed in the tier's dtype
NormalizedProduct(idx, iteration) ==
    [id |-> <<idx, iteration>>,
     dtype |-> PRECISION_CASCADE[idx].dtype,
     bits |-> DTYPE_BITS[PRECISION_CASCADE[idx].dtype]]

(***************************************************************************)
(* _check_convergence                                                      *)
(***************************************************************************)
\* rel_change of _check_convergence (cascading.py:446-449)
RelChange(eigenvalue, eigenvalue_old) ==
    IF Lt(EIGENVALUE_OLD_EPS, Eig(eigenvalue_old))
    THEN Real(Abs(eigenvalue - eigenvalue_old), Abs(eigenvalue_old), 0)
    ELSE Eig(eigenvalue - eigenvalue_old)

\* a slip: either criterion is enough
_check_convergence_Either(eigenvalue, eigenvalue_old, residual_norm, precision_name) ==
    LET tol_config == PRECISION_TOLERANCES[precision_name]
        rel_change == RelChange(eigenvalue, eigenvalue_old)
        eigenvalue_converged == Lt(rel_change, tol_config.eigenvalue_tol)
        residual_converged == Lt(Res(residual_norm), tol_config.residual_tol)
    IN  [is_converged |-> eigenvalue_converged \/ residual_converged,
         residual_norm |-> residual_norm]

\* a slip: a value equal to its tolerance counts as converged
_check_convergence_NonStrict(eigenvalue, eigenvalue_old, residual_norm, precision_name) ==
    LET tol_config == PRECISION_TOLERANCES[precision_name]
        rel_change == RelChange(eigenvalue, eigenvalue_old)
        eigenvalue_converged == Le(rel_change, tol_config.eigenvalue_tol)
        residual_converged == Le(Res(residual_norm), tol_config.residual_tol)
    IN  [is_converged |-> eigenvalue_converged /\ residual_converged,
         residual_norm |-> residual_norm]

\* CascadingPowerMethod._check_convergence; the residual norm of A, x and
\* eigenvalue is the input residual_norm
_check_convergence(eigenvalue, eigenvalue_old, residual_norm, precision_name) ==
    LET tol_config == PRECISION_TOLERANCES[precision_name]
        rel_change == RelChange(eigenvalue, eigenvalue_old)
        eigenvalue_converged == Lt(rel_change, tol_config.eigenvalue_tol)
        residual_converged == Lt(Res(residual_norm), tol_config.residual_tol)
    IN  [is_converged |-> eigenvalue_converged /\ residual_converged,
         residual_norm |-> residual_norm]

(***************************************************************************)
(* PowerMethodTracer: tolerances and _check_convergence (instrumented.py)  *)
(***************************************************************************)
Tracer_PRECISION_TOLERANCES ==
    [FP8  |-> [eigenvalue_tol |-> Dec(5, 2),  residual_tol |-> Dec(1, 1)],
     FP16 |-> [eigenvalue_tol |-> Dec(1, 3),  residual_tol |-> Dec(1, 2)],
     FP32 |-> [eigenvalue_tol |-> Dec(1, 6),  residual_tol |-> Dec(1, 5)],
     FP64 |-> [eigenvalue_tol |-> Dec(1, 12), residual_tol |-> Dec(1, 11)]]

\* PowerMethodTracer._check_convergence; an unknown precision name gets the
\* FP64 tolerances (dict.get with a default)
Tracer_check_convergence(eigenvalue, eigenvalue_old, residual_norm, precision_name) ==
    LET tol_config ==
            IF precision_name \in DOMAIN Tracer_PRECISION_TOLERANCES
            THEN Tracer_PRECISION_TOLERANCES[precision_name]
            ELSE Tracer_PRECISION_TOLERANCES["FP64"]
        rel_change ==
            IF Lt(Dec(1, 14), Eig(eigenvalue_old))
            THEN Real(Abs(eigenvalue - eigenvalue_old), Abs(eigenvalue_old), 0)
            ELSE Eig(eigenvalue - eigenvalue_old)
        eigenvalue_converged == Lt(rel_change, tol_config.eigenvalue_tol)
        residual_converged == Lt(Res(residual_norm), tol_config.residual_tol)
    IN  [is_converged |-> eigenvalue_converged /\ residual_converged,
         residual_norm |-> residual_norm]

\* relative_error = |eigenvalue - true| / |true|  (cascading.py:322-324)
RelativeError(eigenvalue, true_ev) ==
    Real(Abs(eigenvalue - true_ev), Abs(true_ev), 0)

(***************************************************************************)
(* Inputs                                                                  *)
(***************************************************************************)
MaxIterShort == 3
MaxIterMid == 12
MaxIterLong == 185
SwitchMax == 11

\* 1.0 in eigenvalue units
One == 10 ^ 6

TrueEigenvalues == {One}

TargetErrors == {Dec(1, 10), Dec(5, 1)}

\* what one loop body computes: ||A x||, the Rayleigh quotient, ||A x - l x||
Outcome(norm, eigenvalue, residual_norm) ==
    [norm |-> norm, eigenvalue |-> eigenvalue, residual_norm |-> residual_norm]

AllOutcomes ==
    { Outcome(0, 0, 0),                              \* near-null product
      Outcome(1000000000, One, 0),                   \* exact eigenpair
      Outcome(1000000000, One, 1000000000),          \* exact value, residual 1e-1
      Outcome(1000000000, (3 * One) \div 2, 0),      \* error 0.5, zero residual
      Outcome(1000000000, (3 * One) \div 2, 1000000000),
      Outcome(1000000000, (3 * One) \div 2, 999999999),   \* residual 1e-10 lower
      Outcome(1, 0, 100000000),                      \* norm exactly 1e-10
      Outcome(1000000000, 50000, 100000000),         \* eigenvalue 0.05
      Outcome(1000000000, One + 40000, 1000000000) } \* error 0.04

\* ordered pairs of distinct outcomes
OutcomePairs == {p \in AllOutcomes \X AllOutcomes : p[1] # p[2]}

\* The runs considered compute at most two distinct triples:
\*   t, t, t, ...                 (a fixed point from the first iteration)
\*   a, ..., a, b, b, ...         (s times a, then b for ever)
\*   a, b, a, b, ..., then the last one for ever (s alternating ones)
Schedules ==
    {[cycle |-> <<t>>, switch |-> 0, tail |-> t] : t \in AllOutcomes}
    \cup {[cycle |-> <<p[1]>>, switch |-> s, tail |-> p[2]] :
             p \in OutcomePairs, s \in 1..SwitchMax}
    \cup {[cycle |-> <<p[1], p[2]>>, switch |-> s,
           tail |-> IF s % 2 = 0 THEN p[2] ELSE p[1]] :
             p \in OutcomePairs, s \in 3..SwitchMax}

\* the k-th loop body of the run (k = 1, 2, ...) computes OutcomeAt(s, k)
OutcomeAt(s, k) ==
    IF k <= s.switch
    THEN s.cycle[((k - 1) % Len(s.cycle)) + 1]
    ELSE s.tail

\* matrix_size: int = 1000, the default of __init__
DefaultMatrixSize == 1000

\* a clock that is one unit further at every reading
SteadyClock == <<1>>

\* the iteration budgets tried with a schedule: the switch must be reachable
Budgets(s) ==
    {m \in (0..MaxIterShort) \cup {MaxIterMid} : s.switch <= m}
    \cup (IF s.switch = 0 THEN {MaxIterLong} ELSE {})

VARIABLES
    sched,                  \* input: the numbers the run will compute
    matrix_size,            \* self.matrix_size
    clock_pattern,          \* input: by how much each clock reading advances
    true_eigenvalue,        \* self.true_eigenvalue
    target_error, max_iter, \* arguments of run
    pc,                     \* "ready", "loop", "segment", "returned", "done",
                            \* "finished";
                            \* "check", "cascading_checked", "checked"
    stop_reason,            \* which exit of the while loop was taken
    steps,                  \* loop bodies started so far in the whole run
    random_draws,           \* calls of np.random.randn
    x,                      \* run's vector x
    full_trace, precision_segments, total_iterations, current_precision_idx,
    remaining_iter,
    \* frame of _run_precision_segment
    seg_x, trace, converged, stagnant_count, last_error, eigenvalue_old,
    iteration, is_converged, seg_exit,
    \* history: the vector handed to and returned by each tier called
    x_passed, x_returned,
    cumulative_time_offset,
    \* time.perf_counter: the last reading and the number of readings
    clock, reads,
    start_time,             \* run's start_time
    trace_document,         \* what run returns
    first_run,              \* what an earlier run on the same inputs returned
    \* PowerMethodTracer.run: its arguments and its locals that run has not
    tracer_args, convergence_iteration, threshold_reached, threshold_iteration,
    \* a direct call of _check_convergence: arguments and the two results
    cc_args, cc_result, tracer_result,
    \* a direct call of simulate_fp8: the array given, the array returned,
    \* and the array returned when the result is given to it again
    fp8_x, fp8_once, fp8_twice,
    \* a direct call of _time_to_error: the arguments and the result
    tte_args, tte_result

vars == << sched, matrix_size, clock_pattern, true_eigenvalue, target_error,
           max_iter, pc, stop_reason,
           steps, random_draws, x, full_trace, precision_segments,
           total_iterations, current_precision_idx, remaining_iter,
           seg_x, trace, converged, stagnant_count, last_error,
           eigenvalue_old, iteration, is_converged, seg_exit,
           x_passed, x_returned, cumulative_time_offset, clock, reads,
           start_time, trace_document, first_run,
           tracer_args, convergence_iteration, threshold_reached,
           threshold_iteration,
           cc_args, cc_result, tracer_result,
           fp8_x, fp8_once, fp8_twice, tte_args, tte_result >>

fp8Vars == << fp8_x, fp8_once, fp8_twice >>

tteVars == << tte_args, tte_result >>

ccVars == << cc_args, cc_result, tracer_result >>

inputVars == << sched, matrix_size, true_eigenvalue, target_error, max_iter >>

twinVars == << clock_pattern, first_run >>

tracerVars == << tracer_args, convergence_iteration, threshold_reached,
                threshold_iteration >>

clockVars == << clock, reads, start_time >>

runVars == << x, full_trace, precision_segments, total_iterations,
              current_precision_idx, remaining_iter >>

segVars == << seg_x, trace, converged, stagnant_count, last_error,
              eigenvalue_old, iteration, is_converged, seg_exit,
              cumulative_time_offset >>

NoVector == [id |-> <<0, -1>>, dtype |-> "none", bits |-> 0]

NoResult == [is_converged |-> FALSE, residual_norm |-> INF]

NoArgs == [eigenvalue |-> 0, eigenvalue_old |-> 0, residual_norm |-> 0,
           precision_name |-> "none"]

\* float("nan")
NAN == [num |-> 0, den |-> 0, e |-> 0]

IsNaN(r) == r.den = 0

\* x <= y on floats: false when one of them is nan
LeFloat(a, b) == ~ IsNaN(a) /\ ~ IsNaN(b) /\ Le(a, b)

\* nothing has been returned
NoDocument ==
    [metadata |-> [algorithm |-> "none", matrix_size |-> 0,
                   true_eigenvalue |-> 0, target_error |-> NAN,
                   final_error |-> NAN, converged |-> FALSE,
                   max_iterations |-> 0],
     precision_segments |-> << >>,
     trace |-> << >>,
     summary |-> [total_iterations |-> 0, total_time_seconds |-> 0,
                  precision_levels_used |-> 0,
                  average_time_per_iteration |-> Real(0, 1, 0)]]

\* no earlier run
NoRun == [document |-> NoDocument, stop_reason |-> "none"]

\* None
None == -1

\* PowerMethodTracer.run is not called
NoTracerArgs == [precision_name |-> "none", dtype |-> "none",
                 simulate_fp8_flag |-> FALSE, tol |-> NAN]

IdleTracer ==
    /\ tracer_args = NoTracerArgs
    /\ convergence_iteration = None
    /\ threshold_reached = FALSE
    /\ threshold_iteration = None

\* no run has started
IdleRun ==
    /\ stop_reason = "none"
    /\ steps = 0
    /\ random_draws = 0
    /\ x = NoVector
    /\ full_trace = << >>
    /\ precision_segments = << >>
    /\ total_iterations = 0
    /\ current_precision_idx = 0
    /\ remaining_iter = 0
    /\ seg_x = NoVector
    /\ trace = << >>
    /\ converged = FALSE
    /\ stagnant_count = 0
    /\ last_error = INF
    /\ eigenvalue_old = 0
    /\ iteration = 0
    /\ is_converged = FALSE
    /\ seg_exit = "none"
    /\ x_passed = << >>
    /\ x_returned = << >>
    /\ cumulative_time_offset = 0
    /\ clock = 0
    /\ reads = 0
    /\ start_time = 0
    /\ trace_document = NoDocument

\* no direct call of _check_convergence is made
IdleCheck ==
    /\ cc_args = NoArgs
    /\ cc_result = NoResult
    /\ tracer_result = NoResult

\* no direct call of simulate_fp8 is made
IdleEmulator ==
    /\ fp8_x = << >>
    /\ fp8_once = << >>
    /\ fp8_twice = << >>

\* no direct call of _time_to_error is made
IdleTimeToError ==
    /\ tte_args = [trace |-> << >>, error_threshold |-> NAN]
    /\ tte_result = None

\* a constructed CascadingPowerMethod and the arguments of one call of run
Init ==
    /\ sched \in Schedules
    /\ max_iter \in Budgets(sched)
    /\ matrix_size = DefaultMatrixSize
    /\ clock_pattern = SteadyClock
    /\ first_run = NoRun
    /\ IdleTracer
    /\ true_eigenvalue \in TrueEigenvalues
    /\ target_error \in TargetErrors
    /\ pc = "ready"
    /\ IdleRun
    /\ IdleCheck
    /\ IdleEmulator
    /\ IdleTimeToError

(***************************************************************************)
(* time.perf_counter                                                       *)
(***************************************************************************)
\* by how much the j-th reading of the run is ahead of the one before
Tick(j) == clock_pattern[((j - 1) % Len(clock_pattern)) + 1]

\* the value of the first and of the second reading made by a step
FirstReading == clock + Tick(reads + 1)

SecondReading == FirstReading + Tick(reads + 2)

(***************************************************************************)
(* _get_dtype_bytes                                                        *)
(***************************************************************************)
\* a slip: the emulated tier is counted with the width it computes in
_get_dtype_bytes_ComputeWidth(dtype, simulate_fp8_flag) ==
    CASE dtype = "float64" -> 8
      [] dtype = "float32" -> 4
      [] dtype = "float16" -> 2
      [] OTHER -> 4

_get_dtype_bytes(dtype, simulate_fp8_flag) ==
    IF simulate_fp8_flag THEN 1
    ELSE CASE dtype = "float64" -> 8
           [] dtype = "float32" -> 4
           [] dtype = "float16" -> 2
           [] OTHER -> 4

(***************************************************************************)
(* CascadingPowerMethod.run                                                *)
(***************************************************************************)
\* lines 110-122: draw the start vector, empty trace storage
Start ==
    /\ pc = "ready"
    /\ x' = RandomVector
    /\ random_draws' = random_draws + 1
    /\ full_trace' = << >>
    /\ precision_segments' = << >>
    /\ total_iterations' = 0
    /\ current_precision_idx' = 0
    /\ start_time' = FirstReading
    /\ clock' = FirstReading
    /\ reads' = reads + 1
    /\ pc' = "loop"
    /\ UNCHANGED << inputVars, ccVars, fp8Vars, tteVars, twinVars, tracerVars, trace_document, stop_reason,
                    steps, remaining_iter, segVars, x_passed, x_returned >>

\* the condition of the while loop (lines 128-131); the list index is 0-based
LoopCondition ==
    /\ current_precision_idx < Len(PRECISION_CASCADE)
    /\ total_iterations < max_iter

\* the tier record of the current index
CurrentTier == PRECISION_CASCADE[current_precision_idx + 1]

\* a slip: every tier is given the whole budget
RemainingIter_WholeBudget == max_iter

\* remaining_iter = max_iter - total_iterations  (line 151)
RemainingIter == max_iter - total_iterations

\* a slip: every tier counts its time from zero
TimeOffset_FromZero(now, start) == 0

\* time.perf_counter() - start_time, the last argument of the call (line 168)
TimeOffset(now, start) == now - start

\* a slip: the stagnation counter and the previous residual norm are kept
\* from the tier before
EnterTier_KeepsStagnation ==
    /\ pc = "loop"
    /\ LoopCondition
    /\ LET cast == astype(x, CurrentTier.dtype)
           remaining == RemainingIter
       IN  /\ x' = cast
           /\ remaining_iter' = remaining
           /\ IF remaining <= 0
              THEN /\ pc' = "done"
                   /\ stop_reason' = "no_remaining"
                   /\ UNCHANGED << segVars, x_passed, clock, reads >>
              ELSE /\ pc' = "segment"
                   /\ stop_reason' = stop_reason
                   /\ seg_x' = cast
                   /\ trace' = << >>
                   /\ converged' = FALSE
                   /\ stagnant_count' = stagnant_count
                   /\ last_error' = last_error
                   /\ eigenvalue_old' = 0
                   /\ iteration' = 0
                   /\ is_converged' = FALSE
                   /\ seg_exit' = "none"
                   /\ x_passed' = Append(x_passed, cast)
                   /\ cumulative_time_offset'
                          = TimeOffset(FirstReading, start_time)
                   /\ clock' = FirstReading
                   /\ reads' = reads + 1
    /\ UNCHANGED << inputVars, ccVars, fp8Vars, tteVars, twinVars, tracerVars, start_time, trace_document,
                    steps, random_draws, full_trace,
                    precision_segments, total_iterations,
                    current_precision_idx, x_returned >>

\* lines 132-169: cast x to the tier's dtype and call _run_precision_segment,
\* whose locals are set by lines 286-291
EnterTier ==
    /\ pc = "loop"
    /\ LoopCondition
    /\ LET cast == astype(x, CurrentTier.dtype)
           remaining == RemainingIter
       IN  /\ x' = cast
           /\ remaining_iter' = remaining
           /\ IF remaining <= 0
              THEN /\ pc' = "done"
                   /\ stop_reason' = "no_remaining"
                   /\ UNCHANGED << segVars, x_passed, clock, reads >>
              ELSE /\ pc' = "segment"
                   /\ stop_reason' = stop_reason
                   /\ seg_x' = cast
                   /\ trace' = << >>
                   /\ converged' = FALSE
                   /\ stagnant_count' = 0
                   /\ last_error' = INF
                   /\ eigenvalue_old' = 0
                   /\ iteration' = 0
                   /\ is_converged' = FALSE
                   /\ seg_exit' = "none"
                   /\ x_passed' = Append(x_passed, cast)
                   /\ cumulative_time_offset'
                          = TimeOffset(FirstReading, start_time)
                   /\ clock' = FirstReading
                   /\ reads' = reads + 1
    /\ UNCHANGED << inputVars, ccVars, fp8Vars, tteVars, twinVars, tracerVars, start_time, trace_document,
                    steps, random_draws, full_trace,
                    precision_segments, total_iterations,
                    current_precision_idx, x_returned >>

\* the while condition is false: fall out of the loop (line 215)
ExitLoop ==
    /\ pc = "loop"
    /\ ~ LoopCondition
    /\ pc' = "done"
    /\ stop_reason' = "loop_end"
    /\ UNCHANGED << inputVars, ccVars, fp8Vars, tteVars, twinVars, tracerVars, clockVars, trace_document,
                    steps, random_draws, runVars, segVars,
                    x_passed, x_returned >>

(***************************************************************************)
(* _run_precision_segment: one body of the for loop per step               *)
(***************************************************************************)
\* ops_per_iteration = 2 * n * n + n  (line 343)
OpsPerIteration(n) == 2 * n * n + n

\* bytes_transferred = (n * n + 2 * n) * dtype_bytes  (line 346)
BytesTransferred(n, dtype_bytes) == (n * n + 2 * n) * dtype_bytes

\* a slip: the quotient is taken whatever the duration
Flops_NoGuard(ops_per_iteration, iter_duration) ==
    Real(ops_per_iteration, iter_duration, 0)

\* flops = ops_per_iteration / iter_duration if iter_duration > 0 else 0
\* (line 344), in operations per clock unit
Flops(ops_per_iteration, iter_duration) ==
    IF iter_duration > 0
    THEN Real(ops_per_iteration, iter_duration, 0)
    ELSE Real(0, 1, 0)

\* (bytes_transferred / iter_duration / 1e9) if iter_duration > 0 else 0
\* (lines 347-349)
BandwidthGbps(bytes_transferred, iter_duration) ==
    IF iter_duration > 0
    THEN Real(bytes_transferred, iter_duration, 9)
    ELSE Real(0, 1, 0)

\* what this loop body computes
NextOutcome == OutcomeAt(sched, steps + 1)

\* a slip: the vector the tier was given is returned, not the last iterate
IterateNullNorm_ReturnsInput ==
    /\ pc = "segment"
    /\ Lt(Res(NextOutcome.norm), NORM_EPS)
    /\ steps' = steps + 1
    /\ seg_exit' = "null_norm"
    /\ pc' = "returned"
    /\ x_returned' = Append(x_returned, x)
    /\ clock' = FirstReading
    /\ reads' = reads + 1
    /\ UNCHANGED << inputVars, ccVars, fp8Vars, tteVars, twinVars, tracerVars, start_time, trace_document,
                    stop_reason, random_draws, runVars, seg_x,
                    trace, converged, stagnant_count, last_error,
                    eigenvalue_old, iteration, is_converged,
                    cumulative_time_offset, x_passed >>

\* lines 312-314: the product is near-null, the loop ends without a record
IterateNullNorm ==
    /\ pc = "segment"
    /\ Lt(Res(NextOutcome.norm), NORM_EPS)
    /\ steps' = steps + 1
    /\ seg_exit' = "null_norm"
    /\ pc' = "returned"
    /\ x_returned' = Append(x_returned, seg_x)
    /\ clock' = FirstReading
    /\ reads' = reads + 1
    /\ UNCHANGED << inputVars, ccVars, fp8Vars, tteVars, twinVars, tracerVars, start_time, trace_document,
                    stop_reason, random_draws, runVars, seg_x,
                    trace, converged, stagnant_count, last_error,
                    eigenvalue_old, iteration, is_converged,
                    cumulative_time_offset, x_passed >>

\* abs(last_error - residual_norm) < 1e-10  (lines 381-382)
NoImprovement(last, residual_norm) ==
    /\ last # INF
    /\ Lt(Res(Abs(last - residual_norm)), STAGNATION_EPS)

\* a slip: the check is made on the first iteration too
ConvergenceStep_NoSkip(iter, eigenvalue, eig_old, residual_norm, precision_name) ==
    _check_convergence(eigenvalue, eig_old, residual_norm, precision_name)

\* lines 326-336: the convergence check, skipped on the first iteration
ConvergenceStep(iter, eigenvalue, eig_old, residual_norm, precision_name) ==
    IF iter = 0
    THEN [is_converged |-> FALSE, residual_norm |-> residual_norm]
    ELSE _check_convergence(eigenvalue, eig_old, residual_norm, precision_name)

\* a slip: only a residual that went down resets the counter
StagnationUpdate_NoAbs(iter, count, last, residual_norm) ==
    IF iter > 0
    THEN IF last # INF /\ last - residual_norm < 1 THEN count + 1 ELSE 0
    ELSE count

\* lines 378-385: the stagnation counter after this iteration
StagnationUpdate(iter, count, last, residual_norm) ==
    IF iter > 0
    THEN IF NoImprovement(last, residual_norm) THEN count + 1 ELSE 0
    ELSE count

\* a slip: the stagnation test is made before the two convergence tests
TransitionCondition_StagnationFirst(is_conv, relative_error, target, count, max_stagnant) ==
    IF count >= max_stagnant THEN "stagnant"
    ELSE IF is_conv THEN "dual"
    ELSE IF Le(relative_error, target) THEN "target"
    ELSE "none"

\* a slip: the stagnation break is missing
TransitionCondition_NoStagnation(is_conv, relative_error, target, count, max_stagnant) ==
    IF is_conv THEN "dual"
    ELSE IF Le(relative_error, target) THEN "target"
    ELSE "none"

\* a slip: a tier gives up once the clock has passed five units
TransitionCondition_Deadline(is_conv, relative_error, target, count, max_stagnant) ==
    IF is_conv THEN "dual"
    ELSE IF Le(relative_error, target) THEN "target"
    ELSE IF count >= max_stagnant \/ clock > 5 THEN "stagnant"
    ELSE "none"

\* a slip: the break on the target error is missing
TransitionCondition_NoTarget(is_conv, relative_error, target, count, max_stagnant) ==
    IF is_conv THEN "dual"
    ELSE IF count >= max_stagnant THEN "stagnant"
    ELSE "none"

\* a slip: the stagnation break is taken one iteration early
TransitionCondition_StagnationEarly(is_conv, relative_error, target, count, max_stagnant) ==
    IF is_conv THEN "dual"
    ELSE IF Le(relative_error, target) THEN "target"
    ELSE IF count >= max_stagnant - 1 THEN "stagnant"
    ELSE "none"

\* lines 389-414: which break, if any, ends the loop after this record
TransitionCondition(is_conv, relative_error, target, count, max_stagnant) ==
    IF is_conv THEN "dual"
    ELSE IF Le(relative_error, target) THEN "target"
    ELSE IF count >= max_stagnant THEN "stagnant"
    ELSE "none"

\* lines 315-414: a recorded iteration
IterateRecord ==
    /\ pc = "segment"
    /\ ~ Lt(Res(NextOutcome.norm), NORM_EPS)
    /\ LET o == NextOutcome
           precision_name == CurrentTier.name
           eigenvalue == o.eigenvalue
           relative_error == RelativeError(eigenvalue, true_eigenvalue)
           cc == ConvergenceStep(iteration, eigenvalue, eigenvalue_old,
                                 o.residual_norm, precision_name)
           iter_start_time == FirstReading
           iter_end_time == SecondReading
           iter_duration == iter_end_time - iter_start_time
           cumulative_time == cumulative_time_offset
                                  + (iter_end_time - iter_start_time)
           dtype_bytes == _get_dtype_bytes(CurrentTier.dtype,
                                           CurrentTier.simulate_fp8)
           ops_per_iteration == OpsPerIteration(matrix_size)
           bytes_transferred == BytesTransferred(matrix_size, dtype_bytes)
           record == [iteration |-> iteration,
                      precision |-> precision_name,
                      wall_time |-> iter_duration,
                      cumulative_time |-> cumulative_time,
                      eigenvalue |-> eigenvalue,
                      relative_error |-> relative_error,
                      residual_norm |-> cc.residual_norm,
                      vector_norm |-> o.norm,
                      theoretical_flops |->
                          Flops(ops_per_iteration, iter_duration),
                      theoretical_bandwidth_gbps |->
                          BandwidthGbps(bytes_transferred, iter_duration),
                      ops_count |-> ops_per_iteration,
                      bytes_transferred |-> bytes_transferred]
           count == StagnationUpdate(iteration, stagnant_count, last_error,
                                     cc.residual_norm)
           break == TransitionCondition(cc.is_converged, relative_error,
                                        target_error, count,
                                        CurrentTier.max_stagnant)
           \* range(max_iter) is used up after the last iteration (line 293)
           exit == IF break = "none" /\ iteration + 1 >= remaining_iter
                   THEN "budget"
                   ELSE break
       IN  /\ steps' = steps + 1
           /\ is_converged' = cc.is_converged
           /\ trace' = Append(trace, record)
           /\ seg_x' = NormalizedProduct(current_precision_idx + 1, iteration)
           /\ cumulative_time_offset' = cumulative_time
           /\ clock' = iter_end_time
           /\ reads' = reads + 2
           /\ eigenvalue_old' = eigenvalue
           /\ stagnant_count' = count
           /\ last_error' = cc.residual_norm
           /\ converged' = IF exit \in {"dual", "target"} THEN TRUE
                           ELSE IF exit = "stagnant" THEN FALSE
                           ELSE converged
           /\ seg_exit' = exit
           /\ IF exit = "none"
              THEN /\ iteration' = iteration + 1
                   /\ pc' = "segment"
                   /\ x_returned' = x_returned
              ELSE /\ iteration' = iteration
                   /\ pc' = "returned"
                   /\ x_returned' = Append(x_returned, seg_x')
    /\ UNCHANGED << inputVars, ccVars, fp8Vars, tteVars, twinVars, tracerVars, start_time, trace_document,
                    stop_reason, random_draws, runVars, x_passed >>

(***************************************************************************)
(* run, after _run_precision_segment returned (lines 157-213)              *)
(***************************************************************************)
\* a slip: a tier without records is skipped and the next one is tried
TierNoRecords_Skip ==
    /\ pc = "returned"
    /\ trace = << >>
    /\ x' = seg_x
    /\ current_precision_idx' = current_precision_idx + 1
    /\ pc' = "loop"
    /\ UNCHANGED << inputVars, ccVars, fp8Vars, tteVars, twinVars, tracerVars, clockVars, trace_document,
                    stop_reason, steps, random_draws,
                    full_trace, precision_segments, total_iterations,
                    remaining_iter, segVars, x_passed, x_returned >>

\* lines 171-174: no record, leave the loop
TierNoRecords ==
    /\ pc = "returned"
    /\ trace = << >>
    /\ x' = seg_x
    /\ pc' = "done"
    /\ stop_reason' = "no_records"
    /\ UNCHANGED << inputVars, ccVars, fp8Vars, tteVars, twinVars, tracerVars, clockVars, trace_document,
                    steps, random_draws, full_trace,
                    precision_segments, total_iterations,
                    current_precision_idx, remaining_iter, segVars,
                    x_passed, x_returned >>

\* a slip: the span of the segment is counted from the start of the tier
SegmentInfo_LocalSpan ==
    [precision |-> CurrentTier.name,
     dtype |-> CurrentTier.dtype,
     dtype_bytes |-> _get_dtype_bytes(CurrentTier.dtype, CurrentTier.simulate_fp8),
     iterations |-> Len(trace),
     start_iteration |-> 0,
     end_iteration |-> Len(trace),
     start_error |-> trace[1].relative_error,
     end_error |-> trace[Len(trace)].relative_error,
     time |-> trace[Len(trace)].cumulative_time - trace[1].cumulative_time,
     converged |-> converged]

\* lines 176-195
SegmentInfo ==
    [precision |-> CurrentTier.name,
     dtype |-> CurrentTier.dtype,
     dtype_bytes |-> _get_dtype_bytes(CurrentTier.dtype, CurrentTier.simulate_fp8),
     iterations |-> Len(trace),
     start_iteration |-> total_iterations,
     end_iteration |-> total_iterations + Len(trace),
     start_error |-> trace[1].relative_error,
     end_error |-> trace[Len(trace)].relative_error,
     time |-> trace[Len(trace)].cumulative_time - trace[1].cumulative_time,
     converged |-> converged]

\* a slip: the error of the last record is not looked at
TargetReached_ConvergedOnly == converged

\* the test of line 208
TargetReached ==
    converged /\ Le(trace[Len(trace)].relative_error, target_error)

\* lines 176-210: seal the segment, the target is reached, leave the loop
TierTargetReached ==
    /\ pc = "returned"
    /\ trace # << >>
    /\ TargetReached
    /\ x' = seg_x
    /\ precision_segments' = Append(precision_segments, SegmentInfo)
    /\ full_trace' = full_trace \o trace
    /\ total_iterations' = total_iterations + Len(trace)
    /\ pc' = "done"
    /\ stop_reason' = "target_reached"
    /\ UNCHANGED << inputVars, ccVars, fp8Vars, tteVars, twinVars, tracerVars, clockVars, trace_document,
                    steps, random_draws, current_precision_idx,
                    remaining_iter, segVars, x_passed, x_returned >>

\* a slip: the tier index is not moved on
TierAdvance_NoIncrement ==
    /\ pc = "returned"
    /\ trace # << >>
    /\ ~ TargetReached
    /\ x' = seg_x
    /\ precision_segments' = Append(precision_segments, SegmentInfo)
    /\ full_trace' = full_trace \o trace
    /\ total_iterations' = total_iterations + Len(trace)
    /\ pc' = "loop"
    /\ UNCHANGED << inputVars, ccVars, fp8Vars, tteVars, twinVars, tracerVars, clockVars, trace_document,
                    stop_reason, steps, random_draws,
                    current_precision_idx, remaining_iter, segVars,
                    x_passed, x_returned >>

\* a slip: the tier index is moved on by two
TierAdvance_SkipOne ==
    /\ pc = "returned"
    /\ trace # << >>
    /\ ~ TargetReached
    /\ x' = seg_x
    /\ precision_segments' = Append(precision_segments, SegmentInfo)
    /\ full_trace' = full_trace \o trace
    /\ total_iterations' = total_iterations + Len(trace)
    /\ current_precision_idx' = current_precision_idx + 2
    /\ pc' = "loop"
    /\ UNCHANGED << inputVars, ccVars, fp8Vars, tteVars, twinVars, tracerVars, clockVars, trace_document,
                    stop_reason, steps, random_draws,
                    remaining_iter, segVars, x_passed, x_returned >>

\* a slip: the vector returned by the tier is dropped, run keeps its own
TierAdvance_DropVector ==
    /\ pc = "returned"
    /\ trace # << >>
    /\ ~ TargetReached
    /\ x' = x
    /\ precision_segments' = Append(precision_segments, SegmentInfo)
    /\ full_trace' = full_trace \o trace
    /\ total_iterations' = total_iterations + Len(trace)
    /\ current_precision_idx' = current_precision_idx + 1
    /\ pc' = "loop"
    /\ UNCHANGED << inputVars, ccVars, fp8Vars, tteVars, twinVars, tracerVars, clockVars, trace_document,
                    stop_reason, steps, random_draws,
                    remaining_iter, segVars, x_passed, x_returned >>

\* a slip: the records of the tier are put in front of the global trace
TierAdvance_Prepend ==
    /\ pc = "returned"
    /\ trace # << >>
    /\ ~ TargetReached
    /\ x' = seg_x
    /\ precision_segments' = Append(precision_segments, SegmentInfo)
    /\ full_trace' = trace \o full_trace
    /\ total_iterations' = total_iterations + Len(trace)
    /\ current_precision_idx' = current_precision_idx + 1
    /\ pc' = "loop"
    /\ UNCHANGED << inputVars, ccVars, fp8Vars, tteVars, twinVars, tracerVars, clockVars, trace_document,
                    stop_reason, steps, random_draws,
                    remaining_iter, segVars, x_passed, x_returned >>

\* lines 176-213: seal the segment and move to the next precision level
TierAdvance ==
    /\ pc = "returned"
    /\ trace # << >>
    /\ ~ TargetReached
    /\ x' = seg_x
    /\ precision_segments' = Append(precision_segments, SegmentInfo)
    /\ full_trace' = full_trace \o trace
    /\ total_iterations' = total_iterations + Len(trace)
    /\ current_precision_idx' = current_precision_idx + 1
    /\ pc' = "loop"
    /\ UNCHANGED << inputVars, ccVars, fp8Vars, tteVars, twinVars, tracerVars, clockVars, trace_document,
                    stop_reason, steps, random_draws,
                    remaining_iter, segVars, x_passed, x_returned >>

\* final_error of line 216
FinalError(records) ==
    IF records # << >> THEN records[Len(records)].relative_error ELSE NAN

\* a slip: an empty trace, whose final error is nan, counts as converged
MetadataConverged_NanCounts(final_error, target) == Le(final_error, target)

\* bool(final_error <= target_error)  (line 233)
MetadataConverged(final_error, target) == LeFloat(final_error, target)

\* total_time / total_iterations if total_iterations > 0 else 0
AverageTime(total_time, iterations) ==
    IF iterations > 0 THEN Real(total_time, iterations, 0) ELSE Real(0, 1, 0)

\* lines 215-251: after the loop, build and return the trace document (the
\* condition number and the timestamp of the metadata are left out)
Return ==
    /\ pc = "done"
    /\ LET total_time == FirstReading - start_time
           final_error == FinalError(full_trace)
       IN  trace_document' =
               [metadata |->
                    [algorithm |-> "cascading_precision",
                     matrix_size |-> matrix_size,
                     true_eigenvalue |-> true_eigenvalue,
                     target_error |-> target_error,
                     final_error |-> final_error,
                     converged |-> MetadataConverged(final_error, target_error),
                     max_iterations |-> max_iter],
                precision_segments |-> precision_segments,
                trace |-> full_trace,
                summary |->
                    [total_iterations |-> total_iterations,
                     total_time_seconds |-> total_time,
                     precision_levels_used |-> Len(precision_segments),
                     average_time_per_iteration |->
                         AverageTime(total_time, total_iterations)]]
    /\ clock' = FirstReading
    /\ reads' = reads + 1
    /\ pc' = "finished"
    /\ UNCHANGED << inputVars, ccVars, fp8Vars, tteVars, twinVars, tracerVars, start_time, stop_reason,
                    steps, random_draws, runVars, segVars, x_passed,
                    x_returned >>

Next ==
    \/ Start
    \/ EnterTier
    \/ ExitLoop
    \/ IterateNullNorm
    \/ IterateRecord
    \/ TierNoRecords
    \/ TierTargetReached
    \/ TierAdvance
    \/ Return

Spec == Init /\ [][Next]_vars

\* run is sequential code: it takes its next step as long as there is one.
\* The runs checked for progress are those whose computed triple changes
\* within the first MaxIterShort loop bodies, or never.
InitFair == Init /\ sched.switch <= MaxIterShort

FairSpec == InitFair /\ [][Next]_vars /\ WF_vars(Next)

(***************************************************************************)
(* PowerMethodTracer.run (instrumented.py)                                 *)
(***************************************************************************)
IEEE754_THRESHOLDS ==
    [FP64 |-> Dec(1, 15), FP32 |-> Dec(1, 7), FP16 |-> Dec(1, 3),
     FP8 |-> Dec(1, 1)]

\* lines 89-97: bytes per element
TracerDtypeBytes(dtype, simulate_fp8_flag) ==
    IF simulate_fp8_flag THEN 1
    ELSE CASE dtype = "float64" -> 8
           [] dtype = "float32" -> 4
           [] dtype = "float16" -> 2
           [] OTHER -> 4

\* ieee754_threshold is not None and relative_error < ieee754_threshold
BelowIeee754Threshold(relative_error, precision_name) ==
    /\ precision_name \in DOMAIN IEEE754_THRESHOLDS
    /\ Lt(relative_error, IEEE754_THRESHOLDS[precision_name])

RECURSIVE _time_to_error_Strict(_, _)
\* a slip: an error equal to the threshold does not count
_time_to_error_Strict(records, error_threshold) ==
    IF records = << >> THEN None
    ELSE IF /\ ~ IsNaN(records[1].relative_error)
            /\ Lt(records[1].relative_error, error_threshold)
         THEN records[1].cumulative_time
         ELSE _time_to_error_Strict(Tail(records), error_threshold)

RECURSIVE _time_to_error(_, _)
\* _time_to_error: the records are gone through in order and the
\* cumulative_time of the first one with relative_error <= error_threshold
\* is returned; None after the last one
_time_to_error(records, error_threshold) ==
    IF records = << >> THEN None
    ELSE IF LeFloat(records[1].relative_error, error_threshold)
         THEN records[1].cumulative_time
         ELSE _time_to_error(Tail(records), error_threshold)

RECURSIVE SumOf(_, _)
\* sum(t[field] for t in trace)
SumOf(records, field) ==
    IF records = << >> THEN 0
    ELSE records[1][field] + SumOf(Tail(records), field)

\* lines 86-117: the arguments are bound, the start vector is drawn, the
\* clock is read; range(max_iter) is empty when max_iter is 0
TracerStart ==
    /\ pc = "tracer_ready"
    /\ x' = astype(RandomVector, tracer_args.dtype)
    /\ random_draws' = random_draws + 1
    /\ trace' = << >>
    /\ converged' = FALSE
    /\ convergence_iteration' = None
    /\ eigenvalue_old' = 0
    /\ threshold_reached' = FALSE
    /\ threshold_iteration' = None
    /\ iteration' = 0
    /\ start_time' = FirstReading
    /\ clock' = FirstReading
    /\ reads' = reads + 1
    /\ pc' = IF max_iter > 0 THEN "tracer_loop" ELSE "tracer_done"
    /\ UNCHANGED << inputVars, ccVars, fp8Vars, tteVars, twinVars, tracer_args, trace_document,
                    stop_reason, steps, full_trace, precision_segments,
                    total_iterations, current_precision_idx, remaining_iter,
                    seg_x, stagnant_count, last_error, is_converged, seg_exit,
                    cumulative_time_offset, x_passed, x_returned >>

\* lines 135-138: the product is near-null, the loop ends without a record
TracerIterateNullNorm ==
    /\ pc = "tracer_loop"
    /\ Lt(Res(NextOutcome.norm), NORM_EPS)
    /\ steps' = steps + 1
    /\ clock' = FirstReading
    /\ reads' = reads + 1
    /\ pc' = "tracer_done"
    /\ UNCHANGED << inputVars, ccVars, fp8Vars, tteVars, twinVars, tracerVars, start_time,
                    trace_document, stop_reason, random_draws, runVars,
                    segVars, x_passed, x_returned >>

\* a slip: the loop does not stop when the dual test first holds
TracerBreak_ThresholdOnly(conv, conv_iteration, reached, reached_iteration, iter) ==
    reached /\ reached_iteration = iter

\* a slip: the loop does not stop when the threshold is first reached
TracerBreak_ConvergenceOnly(conv, conv_iteration, reached, reached_iteration, iter) ==
    conv /\ conv_iteration = iter

\* a slip: the loop also stops when the eigenvalue moved by less than tol
TracerBreak_StopsOnTol(conv, conv_iteration, reached, reached_iteration, iter) ==
    \/ conv /\ conv_iteration = iter
    \/ reached /\ reached_iteration = iter
    \/ Lt(Eig(NextOutcome.eigenvalue - eigenvalue_old), tracer_args.tol)

\* the two breaks at the end of the loop body (lines 216-222)
TracerBreak(conv, conv_iteration, reached, reached_iteration, iter) ==
    \/ conv /\ conv_iteration = iter
    \/ reached /\ reached_iteration = iter

\* lines 119-224: a recorded iteration
TracerIterateRecord ==
    /\ pc = "tracer_loop"
    /\ ~ Lt(Res(NextOutcome.norm), NORM_EPS)
    /\ LET o == NextOutcome
           precision_name == tracer_args.precision_name
           eigenvalue == o.eigenvalue
           relative_error == RelativeError(eigenvalue, true_eigenvalue)
           cc == IF iteration = 0
                 THEN [is_converged |-> FALSE, residual_norm |-> o.residual_norm]
                 ELSE Tracer_check_convergence(eigenvalue, eigenvalue_old,
                                               o.residual_norm, precision_name)
           iter_start_time == FirstReading
           iter_end_time == SecondReading
           iter_duration == iter_end_time - iter_start_time
           cumulative_time == iter_end_time - start_time
           dtype_bytes == TracerDtypeBytes(tracer_args.dtype,
                                           tracer_args.simulate_fp8_flag)
           ops_per_iteration == OpsPerIteration(matrix_size)
           bytes_transferred == BytesTransferred(matrix_size, dtype_bytes)
           first_converged == cc.is_converged /\ ~ converged
           first_below == /\ BelowIeee754Threshold(relative_error,
                                                   precision_name)
                          /\ ~ threshold_reached
           record == [iteration |-> iteration,
                      wall_time |-> iter_duration,
                      cumulative_time |-> cumulative_time,
                      eigenvalue |-> eigenvalue,
                      relative_error |-> relative_error,
                      residual_norm |-> cc.residual_norm,
                      vector_norm |-> o.norm,
                      theoretical_flops |->
                          Flops(ops_per_iteration, iter_duration),
                      theoretical_bandwidth_gbps |->
                          BandwidthGbps(bytes_transferred, iter_duration),
                      ops_count |-> ops_per_iteration,
                      bytes_transferred |-> bytes_transferred]
       IN  /\ steps' = steps + 1
           /\ is_converged' = cc.is_converged
           /\ converged' = (converged \/ first_converged)
           /\ convergence_iteration' = IF first_converged THEN iteration
                                       ELSE convergence_iteration
           /\ threshold_reached' = (threshold_reached \/ first_below)
           /\ threshold_iteration' = IF first_below THEN iteration
                                     ELSE threshold_iteration
           /\ trace' = Append(trace, record)
           /\ x' = [id |-> <<1, iteration>>, dtype |-> tracer_args.dtype,
                    bits |-> DTYPE_BITS[tracer_args.dtype]]
           /\ eigenvalue_old' = eigenvalue
           /\ clock' = iter_end_time
           /\ reads' = reads + 2
           \* one of the two breaks, or range(max_iter) is used up
           /\ IF \/ TracerBreak(converged', convergence_iteration',
                                 threshold_reached', threshold_iteration',
                                 iteration)
                 \/ iteration + 1 >= max_iter
              THEN pc' = "tracer_done" /\ iteration' = iteration
              ELSE pc' = "tracer_loop" /\ iteration' = iteration + 1
    /\ UNCHANGED << inputVars, ccVars, fp8Vars, tteVars, twinVars, tracer_args, start_time,
                    trace_document, stop_reason, random_draws, full_trace,
                    precision_segments, total_iterations,
                    current_precision_idx, remaining_iter, seg_x,
                    stagnant_count, last_error, seg_exit,
                    cumulative_time_offset, x_passed, x_returned >>

\* lines 226-284: the summary and the document (the condition number, the
\* timestamp and the mean and peak rates are left out)
TracerReturn ==
    /\ pc = "tracer_done"
    /\ LET total_time == FirstReading - start_time
       IN  trace_document' =
               [metadata |->
                    [precision |-> tracer_args.precision_name,
                     dtype |-> tracer_args.dtype,
                     dtype_bytes |->
                         TracerDtypeBytes(tracer_args.dtype,
                                          tracer_args.simulate_fp8_flag),
                     matrix_size |-> matrix_size,
                     true_eigenvalue |-> true_eigenvalue,
                     converged |-> converged,
                     convergence_iteration |-> convergence_iteration,
                     final_error |-> FinalError(trace),
                     tolerance |-> tracer_args.tol,
                     max_iterations |-> max_iter,
                     threshold_reached |-> threshold_reached,
                     threshold_iteration |-> threshold_iteration],
                trace |-> trace,
                summary |->
                    [total_iterations |-> Len(trace),
                     total_time_seconds |-> total_time,
                     time_to_1e3_error |-> _time_to_error(trace, Dec(1, 3)),
                     time_to_1e6_error |-> _time_to_error(trace, Dec(1, 6)),
                     time_to_1e9_error |-> _time_to_error(trace, Dec(1, 9)),
                     total_ops |-> SumOf(trace, "ops_count"),
                     total_bytes |-> SumOf(trace, "bytes_transferred")]]
    /\ clock' = FirstReading
    /\ reads' = reads + 1
    /\ pc' = "tracer_finished"
    /\ UNCHANGED << inputVars, ccVars, fp8Vars, tteVars, twinVars, tracerVars, start_time,
                    stop_reason, steps, random_draws, runVars, segVars,
                    x_passed, x_returned >>

(***************************************************************************)
(* Runs under different clocks, of the cascade and of the tracer           *)
(***************************************************************************)
TimedSwitchMax == 1

\* clocks: frozen; steady; time passes only inside an iteration; time passes
\* only between iterations
ClockPatterns == << <<0>>, <<1>>, <<0, 3>>, <<2, 0>> >>

\* the clock tried after clock p
NextPattern(p) ==
    LET i == CHOOSE k \in DOMAIN ClockPatterns : ClockPatterns[k] = p
    IN  ClockPatterns[(i % Len(ClockPatterns)) + 1]

MatrixSizes == {2, DefaultMatrixSize}

\* the arguments of PowerMethodTracer.run: the four precisions of the study
\* and a name that is in no table
TracerArgSets ==
    {[precision_name |-> PRECISION_CASCADE[i].name,
      dtype |-> PRECISION_CASCADE[i].dtype,
      simulate_fp8_flag |-> PRECISION_CASCADE[i].simulate_fp8,
      tol |-> Dec(1, 10)] : i \in DOMAIN PRECISION_CASCADE}
    \cup {[precision_name |-> "BF16", dtype |-> "float32",
           simulate_fp8_flag |-> FALSE, tol |-> Dec(1, 10)]}

\* a constructed CascadingPowerMethod or PowerMethodTracer, the arguments of
\* one call of run, and a clock
InitTimed ==
    /\ sched \in {s \in Schedules : s.switch <= TimedSwitchMax}
    /\ max_iter \in Budgets(sched) \ {MaxIterLong}
    /\ matrix_size \in MatrixSizes
    /\ clock_pattern \in {ClockPatterns[k] : k \in DOMAIN ClockPatterns}
    /\ first_run = NoRun
    /\ true_eigenvalue \in TrueEigenvalues
    /\ pc \in {"ready", "tracer_ready"}
    \* the tracer's run has no target_error
    /\ target_error \in IF pc = "ready" THEN TargetErrors ELSE {Dec(1, 10)}
    /\ IdleRun
    /\ IdleCheck
    /\ IdleEmulator
    /\ IdleTimeToError
    /\ convergence_iteration = None
    /\ threshold_reached = FALSE
    /\ threshold_iteration = None
    /\ IF pc = "tracer_ready"
       THEN tracer_args \in TracerArgSets
       ELSE tracer_args = NoTracerArgs

\* the same object's run is called again with the same arguments and, by
\* assumption, the same start vector; the clock behaves differently
SecondRun ==
    /\ pc = "finished"
    /\ first_run = NoRun
    /\ first_run' = [document |-> trace_document, stop_reason |-> stop_reason]
    /\ clock_pattern' = NextPattern(clock_pattern)
    /\ pc' = "ready"
    /\ stop_reason' = "none"
    /\ steps' = 0
    /\ random_draws' = 0
    /\ x' = NoVector
    /\ full_trace' = << >>
    /\ precision_segments' = << >>
    /\ total_iterations' = 0
    /\ current_precision_idx' = 0
    /\ remaining_iter' = 0
    /\ seg_x' = NoVector
    /\ trace' = << >>
    /\ converged' = FALSE
    /\ stagnant_count' = 0
    /\ last_error' = INF
    /\ eigenvalue_old' = 0
    /\ iteration' = 0
    /\ is_converged' = FALSE
    /\ seg_exit' = "none"
    /\ x_passed' = << >>
    /\ x_returned' = << >>
    /\ cumulative_time_offset' = 0
    /\ clock' = 0
    /\ reads' = 0
    /\ start_time' = 0
    /\ trace_document' = NoDocument
    /\ UNCHANGED << inputVars, ccVars, fp8Vars, tteVars, tracerVars >>

\* the tolerance tried after tol t: the default 1e-10, and 0.5
OtherTol(t) == IF t = Dec(1, 10) THEN Dec(5, 1) ELSE Dec(1, 10)

\* the tracer's run is called again with the same arguments but tol and, by
\* assumption, the same start vector and the same clock
TracerSecondRun ==
    /\ pc = "tracer_finished"
    /\ first_run = NoRun
    /\ first_run' = [document |-> trace_document, stop_reason |-> stop_reason]
    /\ tracer_args' = [tracer_args EXCEPT !.tol = OtherTol(@)]
    /\ convergence_iteration' = None
    /\ threshold_reached' = FALSE
    /\ threshold_iteration' = None
    /\ pc' = "tracer_ready"
    /\ stop_reason' = "none"
    /\ steps' = 0
    /\ random_draws' = 0
    /\ x' = NoVector
    /\ full_trace' = << >>
    /\ precision_segments' = << >>
    /\ total_iterations' = 0
    /\ current_precision_idx' = 0
    /\ remaining_iter' = 0
    /\ seg_x' = NoVector
    /\ trace' = << >>
    /\ converged' = FALSE
    /\ stagnant_count' = 0
    /\ last_error' = INF
    /\ eigenvalue_old' = 0
    /\ iteration' = 0
    /\ is_converged' = FALSE
    /\ seg_exit' = "none"
    /\ x_passed' = << >>
    /\ x_returned' = << >>
    /\ cumulative_time_offset' = 0
    /\ clock' = 0
    /\ reads' = 0
    /\ start_time' = 0
    /\ trace_document' = NoDocument
    /\ UNCHANGED << inputVars, ccVars, fp8Vars, tteVars, clock_pattern >>

NextTimed ==
    \/ Next
    \/ SecondRun
    \/ TracerSecondRun
    \/ TracerStart
    \/ TracerIterateNullNorm
    \/ TracerIterateRecord
    \/ TracerReturn

SpecTimed == InitTimed /\ [][NextTimed]_vars

(***************************************************************************)
(* Direct calls of _check_convergence on chosen arguments                  *)
(***************************************************************************)
CheckEigenvalues == {-One, 0, 1, 1000, 50000, One, One + 2, 2 * One}

CheckResiduals == {0, 99999, 100000, 100000000, 1000000000}

PrecisionNames == {PRECISION_CASCADE[i].name : i \in DOMAIN PRECISION_CASCADE}

InitCheck ==
    /\ sched = [cycle |-> <<Outcome(0, 0, 0)>>, switch |-> 0,
                tail |-> Outcome(0, 0, 0)]
    /\ max_iter = 0
    /\ matrix_size = DefaultMatrixSize
    /\ clock_pattern = SteadyClock
    /\ first_run = NoRun
    /\ IdleTracer
    /\ true_eigenvalue = One
    /\ target_error = Dec(1, 10)
    /\ pc = "check"
    /\ IdleRun
    /\ IdleEmulator
    /\ IdleTimeToError
    /\ cc_args \in [eigenvalue : CheckEigenvalues,
                     eigenvalue_old : CheckEigenvalues,
                     residual_norm : CheckResiduals,
                     precision_name : PrecisionNames]
    /\ cc_result = NoResult
    /\ tracer_result = NoResult

\* CascadingPowerMethod._check_convergence(A, x, eigenvalue, eigenvalue_old,
\* precision_name)
CascadingCheck ==
    /\ pc = "check"
    /\ cc_result' = _check_convergence(cc_args.eigenvalue,
                                       cc_args.eigenvalue_old,
                                       cc_args.residual_norm,
                                       cc_args.precision_name)
    /\ pc' = "cascading_checked"
    /\ UNCHANGED << inputVars, fp8Vars, tteVars, twinVars, tracerVars, clockVars,
                    trace_document, stop_reason, steps, random_draws, runVars,
                    segVars, x_passed, x_returned, cc_args, tracer_result >>

\* PowerMethodTracer._check_convergence on the same arguments
TracerCheck ==
    /\ pc = "cascading_checked"
    /\ tracer_result' = Tracer_check_convergence(cc_args.eigenvalue,
                                                 cc_args.eigenvalue_old,
                                                 cc_args.residual_norm,
                                                 cc_args.precision_name)
    /\ pc' = "checked"
    /\ UNCHANGED << inputVars, fp8Vars, tteVars, twinVars, tracerVars, clockVars,
                    trace_document, stop_reason, steps, random_draws, runVars,
                    segVars, x_passed, x_returned, cc_args, cc_result >>

NextCheck == CascadingCheck \/ TracerCheck

SpecCheck == InitCheck /\ [][NextCheck]_vars

(***************************************************************************)
(* simulate_fp8 (study.py).  An element of an array is a float64, one of:   *)
(*   "finite"  a number sign * mag * 2^-28, on a grid fine enough to hold  *)
(*             floats that float32 cannot;                                 *)
(*   "under"   a non-zero number with |v| <= 2^-150, which float32 rounds  *)
(*             to zero;                                                    *)
(*   "tiny"    a number with 2^-150 < |v| < 1e-10, which float32 keeps     *)
(*             non-zero and below 1e-10;                                   *)
(*   "huge"    a number of at most FLT_MAX whose float32 value is at least *)
(*             2^125: eight times that value is above the float32 range;   *)
(*   "over"    a number with FLT_MAX < |v| < FLT_MAX + 2^103, which        *)
(*             float32 rounds to FLT_MAX;                                  *)
(*   "beyond"  a finite number with |v| >= FLT_MAX + 2^103, which float32  *)
(*             rounds to an infinity;                                      *)
(*   "inf"     an infinity;   "nan"  a NaN.                                *)
(* Negative zero equals zero and is not told apart from it.                *)
(***************************************************************************)
MaxArrayLen == 2

\* 1.0 and 1/8 on the grid of 2^-28
Unit == 2 ^ 28

Eighth == Unit \div 8

Finite(sign, mag) == [cls |-> "finite", sign |-> sign, mag |-> mag]

Under(sign) == [cls |-> "under", sign |-> sign, mag |-> 0]

Tiny(sign) == [cls |-> "tiny", sign |-> sign, mag |-> 0]

Huge(sign) == [cls |-> "huge", sign |-> sign, mag |-> 0]

Over(sign) == [cls |-> "over", sign |-> sign, mag |-> 0]

Beyond(sign) == [cls |-> "beyond", sign |-> sign, mag |-> 0]

Infinity(sign) == [cls |-> "inf", sign |-> sign, mag |-> 0]

NotANumber == [cls |-> "nan", sign |-> 0, mag |-> 0]

RECURSIVE BitLength(_)
\* the number of binary digits of m >= 0
BitLength(m) == IF m = 0 THEN 0 ELSE 1 + BitLength(m \div 2)

\* m / d rounded to the nearest integer, a tie to the even one (np.round, and
\* the rounding of a format conversion)
RoundHalfEven(m, d) ==
    LET q == m \div d
        r == m % d
    IN  IF 2 * r > d \/ (2 * r = d /\ q % 2 = 1) THEN q + 1 ELSE q

\* x.astype(np.float32) on one element: 24 significant bits are kept; what
\* is at most half the smallest float32 becomes zero, what is above FLT_MAX
\* becomes FLT_MAX below the rounding boundary and an infinity from it on
Float32(v) ==
    CASE v.cls = "finite" ->
             LET b == BitLength(v.mag)
             IN  IF b <= 24 THEN v
                 ELSE LET d == 2 ^ (b - 24)
                      IN  Finite(v.sign, RoundHalfEven(v.mag, d) * d)
      [] v.cls = "under" -> Finite(0, 0)
      [] v.cls = "over" -> Huge(v.sign)
      [] v.cls = "beyond" -> Infinity(v.sign)
      [] OTHER -> v

\* np.sign on one element: -1.0, 0.0, 1.0, or nan for a nan
np_sign(v) ==
    IF v.cls = "nan" THEN NotANumber
    ELSE Finite(v.sign, IF v.sign = 0 THEN 0 ELSE Unit)

\* np.abs on one element
np_abs(v) ==
    IF v.cls = "nan" THEN NotANumber
    ELSE [v EXCEPT !.sign = IF v.sign = 0 THEN 0 ELSE 1]

\* abs_x > 1e-10 on one element; the smallest step of the grid, 2^-28, is
\* above 1e-10, and a comparison with nan is false
Above1em10(a) ==
    CASE a.cls = "finite" -> a.mag > 0
      [] a.cls \in {"huge", "inf"} -> TRUE
      [] OTHER -> FALSE

\* a slip: the eightfold is not rounded
Quantize_NoRound(a) ==
    CASE a.cls = "finite" -> a
      [] a.cls \in {"huge", "inf"} -> Infinity(1)
      [] OTHER -> a

\* np.round(abs_x * 8) / 8 on one element; the eightfold of a huge number is
\* an infinity
Quantize(a) ==
    CASE a.cls = "finite" ->
             LET q == RoundHalfEven(a.mag, Eighth)
             IN  Finite(IF q = 0 THEN 0 ELSE 1, q * Eighth)
      [] a.cls \in {"huge", "inf"} -> Infinity(1)
      [] OTHER -> a

\* sign * quantized on one element, sign being -1.0, 0.0, 1.0 or nan
SignTimes(sign, quantized) ==
    IF sign.cls = "nan" \/ quantized.cls = "nan" THEN NotANumber
    ELSE IF quantized.cls = "inf"
         THEN IF sign.sign = 0 THEN NotANumber
              ELSE Infinity(sign.sign * quantized.sign)
         ELSE Finite(IF quantized.mag = 0 THEN 0
                     ELSE sign.sign * quantized.sign,
                     IF sign.sign = 0 THEN 0 ELSE quantized.mag)

\* simulate_fp8 on one element of the array
simulate_fp8_element(v) ==
    LET x32 == Float32(v)
        sign == np_sign(x32)
        abs_x == np_abs(x32)
        mask == Above1em10(abs_x)
        quantized == IF mask THEN Quantize(abs_x) ELSE Finite(0, 0)
    IN  SignTimes(sign, quantized)

\* simulate_fp8(x)
simulate_fp8(arr) == [i \in DOMAIN arr |-> simulate_fp8_element(arr[i])]

\* magnitudes tried: zero, the smallest step, ties between two multiples of
\* 1/8, a number float32 rounds to a tie, multiples of 1/8 and numbers that
\* are none
Magnitudes ==
    {0, 1, Eighth \div 2, Eighth \div 2 + 1, Eighth \div 2 + 2, Eighth,
     (3 * Eighth) \div 2, Unit, Unit + 3, (5 * Unit) \div 2}

Fp8Elements ==
    {Finite(IF m = 0 THEN 0 ELSE s, m) : s \in {-1, 1}, m \in Magnitudes}
    \cup {Under(s) : s \in {-1, 1}}
    \cup {Tiny(s) : s \in {-1, 1}}
    \cup {Huge(s) : s \in {-1, 1}}
    \cup {Over(s) : s \in {-1, 1}}
    \cup {Beyond(s) : s \in {-1, 1}}
    \cup {Infinity(s) : s \in {-1, 1}}
    \cup {NotANumber}

Fp8Arrays == UNION {[1..n -> Fp8Elements] : n \in 0..MaxArrayLen}

InitEmulator ==
    /\ sched = [cycle |-> <<Outcome(0, 0, 0)>>, switch |-> 0,
                tail |-> Outcome(0, 0, 0)]
    /\ max_iter = 0
    /\ matrix_size = DefaultMatrixSize
    /\ clock_pattern = SteadyClock
    /\ first_run = NoRun
    /\ IdleTracer
    /\ true_eigenvalue = One
    /\ target_error = Dec(1, 10)
    /\ pc = "fp8_ready"
    /\ IdleRun
    /\ IdleCheck
    /\ fp8_x \in Fp8Arrays
    /\ fp8_once = << >>
    /\ fp8_twice = << >>
    /\ IdleTimeToError

\* y = simulate_fp8(x)
EmulateOnce ==
    /\ pc = "fp8_ready"
    /\ fp8_once' = simulate_fp8(fp8_x)
    /\ pc' = "fp8_once"
    /\ UNCHANGED << inputVars, ccVars, twinVars, tracerVars, clockVars,
                    trace_document, stop_reason, steps, random_draws, runVars,
                    segVars, x_passed, x_returned, fp8_x, fp8_twice,
                    tteVars >>

\* z = simulate_fp8(y)
EmulateTwice ==
    /\ pc = "fp8_once"
    /\ fp8_twice' = simulate_fp8(fp8_once)
    /\ pc' = "fp8_twice"
    /\ UNCHANGED << inputVars, ccVars, twinVars, tracerVars, clockVars,
                    trace_document, stop_reason, steps, random_draws, runVars,
                    segVars, x_passed, x_returned, fp8_x, fp8_once,
                    tteVars >>

NextEmulator == EmulateOnce \/ EmulateTwice

SpecEmulator == InitEmulator /\ [][NextEmulator]_vars

(***************************************************************************)
(* Direct calls of PowerMethodTracer._time_to_error on chosen traces       *)
(***************************************************************************)
MaxTraceLen == 3

\* relative errors tried: zero, the three thresholds of the summary, one
\* half, and nan
TteErrors == {Real(0, 1, 0), Dec(1, 9), Dec(1, 6), Dec(1, 3), Dec(5, 1), NAN}

TteTimes == {0, 5}

TteThresholds == {Dec(1, 3), Dec(1, 6), Dec(1, 9)}

\* the fields of a record that _time_to_error reads
TteRecords == [relative_error : TteErrors, cumulative_time : TteTimes]

TteTraces == UNION {[1..n -> TteRecords] : n \in 0..MaxTraceLen}

InitTimeToError ==
    /\ sched = [cycle |-> <<Outcome(0, 0, 0)>>, switch |-> 0,
                tail |-> Outcome(0, 0, 0)]
    /\ max_iter = 0
    /\ matrix_size = DefaultMatrixSize
    /\ clock_pattern = SteadyClock
    /\ first_run = NoRun
    /\ IdleTracer
    /\ true_eigenvalue = One
    /\ target_error = Dec(1, 10)
    /\ pc = "tte_ready"
    /\ IdleRun
    /\ IdleCheck
    /\ IdleEmulator
    /\ tte_args \in [trace : TteTraces, error_threshold : TteThresholds]
    /\ tte_result = None

\* self._time_to_error(trace, error_threshold)
TimeToError ==
    /\ pc = "tte_ready"
    /\ tte_result' = _time_to_error(tte_args.trace, tte_args.error_threshold)
    /\ pc' = "tte_done"
    /\ UNCHANGED << inputVars, ccVars, fp8Vars, twinVars, tracerVars, clockVars,
                    trace_document, stop_reason, steps, random_draws, runVars,
                    segVars, x_passed, x_returned, tte_args >>

NextTimeToError == TimeToError

SpecTimeToError == InitTimeToError /\ [][NextTimeToError]_vars

(***************************************************************************)
(* Properties of the cascade controller                                    *)
(***************************************************************************)
\* the segment sealed by this step, and the record that ends the trace
SealedNow == Len(precision_segments') = Len(precision_segments) + 1

\* C1: when a tier that produced records is sealed, run stops with the target
\* reached if and only if the tier returned converged = true and the relative
\* error of its last record is <= target_error; in every other case the tier
\* index moves on by one; once the target is reached no tier is run.
C1_StopIffConvergedAndTarget ==
    [][ /\ SealedNow =>
              LET seg == precision_segments'[Len(precision_segments')]
                  last == full_trace'[Len(full_trace')]
                  stop == seg.converged /\ Le(last.relative_error, target_error)
              IN  /\ stop => /\ pc' = "done"
                             /\ stop_reason' = "target_reached"
                             /\ current_precision_idx' = current_precision_idx
                  /\ ~ stop => /\ pc' = "loop"
                               /\ stop_reason' = "none"
                               /\ current_precision_idx' = current_precision_idx + 1
        /\ (stop_reason' = "target_reached" /\ stop_reason # "target_reached")
              => SealedNow
        /\ stop_reason = "target_reached"
              => /\ pc' = "finished"
                 /\ x_passed' = x_passed /\ steps' = steps
                 /\ UNCHANGED << precision_segments, full_trace >>
      ]_vars

\* run stopped on the target in the second or a later tier
C1_Witness ==
    /\ pc = "done"
    /\ stop_reason = "target_reached"
    /\ Len(precision_segments) >= 2

\* C2: a tier that returns no record ends the run at once: no segment is
\* appended, the global trace is unchanged, and no further tier is tried,
\* whatever tiers and budget remain.
C2_ZeroRecordsStop ==
    [][ /\ (pc = "returned" /\ trace = << >>) =>
              /\ pc' = "done"
              /\ stop_reason' = "no_records"
              /\ UNCHANGED << precision_segments, full_trace,
                              total_iterations, current_precision_idx,
                              x_passed, steps >>
        /\ stop_reason = "no_records"
              => /\ pc' = "finished"
                 /\ x_passed' = x_passed /\ steps' = steps
                 /\ UNCHANGED << precision_segments, full_trace >>
      ]_vars

\* a tier after the first returned nothing while tiers and budget remained
C2_Witness ==
    /\ pc = "done"
    /\ stop_reason = "no_records"
    /\ current_precision_idx \in 1..2
    /\ full_trace # << >>
    /\ total_iterations + 1 < max_iter

\* C3: the iterations recorded never exceed max_iter: every tier is called
\* with the cap max_iter minus the iterations already recorded and records at
\* most that many.
C3_TotalWithinBudget ==
    /\ total_iterations <= max_iter
    /\ Len(full_trace) = total_iterations
    /\ pc \in {"segment", "returned"} =>
          /\ remaining_iter = max_iter - total_iterations
          /\ Len(trace) <= remaining_iter
          /\ total_iterations + Len(trace) <= max_iter

\* the whole budget was used, over more than one tier
C3_Witness ==
    /\ pc = "done"
    /\ max_iter > 0
    /\ total_iterations = max_iter
    /\ Len(precision_segments) >= 2

\* C4: every run ends (for any max_iter >= 0 and whatever the tiers compute),
\* with the target reached or with the tiers or the budget used up, and
\* _run_precision_segment is called at most once per tier, four times at most.
C4_RunTerminates ==
    /\ <>(pc = "done" /\ stop_reason \in {"target_reached", "no_records",
                                          "no_remaining", "loop_end"})
    /\ [](Len(x_passed) <= Len(PRECISION_CASCADE))

\* all four tiers were called and the run ended
C4_Witness ==
    /\ pc = "done"
    /\ Len(x_passed) = 4
    /\ stop_reason = "loop_end"

\* C5: the k-th segment is the segment of the k-th tier of PRECISION_CASCADE:
\* tiers are visited in registry order from the first, none skipped, none
\* repeated.
C5_SegmentsInRegistryOrder ==
    /\ Len(precision_segments) <= Len(PRECISION_CASCADE)
    /\ \A k \in 1..Len(precision_segments) :
          precision_segments[k].precision = PRECISION_CASCADE[k].name
    /\ \A k \in 1..Len(x_passed) :
          x_passed[k].dtype = PRECISION_CASCADE[k].dtype
    /\ Len(x_passed) \in {Len(precision_segments), Len(precision_segments) + 1}

\* FP8, FP16, FP32 and FP64 each sealed a segment
C5_Witness ==
    /\ Len(precision_segments) = 4
    /\ precision_segments[4].precision = "FP64"

\* C6: the vector handed to tier i+1 is the vector tier i returned (the
\* normalised vector of tier i's last recorded iteration) in tier i+1's
\* dtype; the random vector is drawn once, before the first tier.
C6_VectorCarried ==
    /\ random_draws <= 1
    /\ pc \in {"loop", "segment", "returned", "done"} => random_draws = 1
    /\ \A i \in 1..Len(x_passed) :
          /\ x_passed[i].dtype = PRECISION_CASCADE[i].dtype
          /\ x_passed[i].id = IF i = 1 THEN RandomVector.id
                              ELSE x_returned[i - 1].id
    /\ \A i \in 1..Len(precision_segments) :
          x_returned[i].id =
              << i, full_trace[precision_segments[i].end_iteration].iteration >>

\* the third tier was handed the vector of the second tier's last record
C6_Witness ==
    /\ Len(x_passed) >= 3
    /\ x_passed[3].id[1] = 2
    /\ x_passed[3].id[2] >= 1
    /\ x_passed[3].dtype = "float32"

\* C7: after each recorded iteration the stop tests are applied in the order
\* (a) dual criterion -> converged = true, (b) relative error <= target_error
\* -> converged = true, (c) stagnation count >= max_stagnant -> converged =
\* false; so stagnation ends a tier with converged = false only when neither
\* (a) nor (b) holds at that iteration.
C7_StopPriority ==
    (pc \in {"segment", "returned"} /\ trace # << >> /\ seg_exit # "null_norm")
    => LET last == trace[Len(trace)]
           a == is_converged
           b == Le(last.relative_error, target_error)
           c == stagnant_count >= CurrentTier.max_stagnant
       IN  /\ a => pc = "returned" /\ converged /\ seg_exit = "dual"
           /\ (~ a /\ b) => pc = "returned" /\ converged /\ seg_exit = "target"
           /\ (~ a /\ ~ b /\ c) =>
                 pc = "returned" /\ ~ converged /\ seg_exit = "stagnant"
           /\ seg_exit = "stagnant" => ~ a /\ ~ b /\ ~ converged
           /\ (~ a /\ ~ b /\ ~ c) =>
                 ~ converged /\ seg_exit \in {"none", "budget"}

\* the dual criterion held at the iteration at which the stagnation count
\* reached max_stagnant
C7_Witness ==
    /\ pc = "returned"
    /\ seg_exit = "dual"
    /\ converged
    /\ stagnant_count >= CurrentTier.max_stagnant

(***************************************************************************)
(* Properties of the convergence test                                      *)
(***************************************************************************)
\* the eigenvalue criterion as the design states it, on integer counts:
\* |new - old| / |old| < tol when |old| > 1e-14, else |new - old| < tol
\* (eigenvalues count 10^-6, so |old| > 1e-14 means old # 0)
EigenvalueCriterion(new, old, tol) ==
    IF old # 0
    THEN ScaledLt(Abs(new - old), tol.e, tol.num * Abs(old), 0)
    ELSE ScaledLt(Abs(new - old), tol.e, tol.num, 6)

\* the residual criterion: residual (count of 10^-10) < tol
ResidualCriterion(residual_norm, tol) ==
    ScaledLt(residual_norm, tol.e, tol.num, 10)

\* residual (count of 10^-10) = tol
ResidualAtTolerance(residual_norm, tol) ==
    /\ ~ ScaledLt(residual_norm, tol.e, tol.num, 10)
    /\ ~ ScaledLt(tol.num, 10, residual_norm, tol.e)

\* both criteria on the last record of the k-th segment; the eigenvalue
\* change is taken against the record before it in the same segment, and
\* asks nothing of a segment of one record
BothCriteria(k) ==
    LET seg == precision_segments[k]
        tol == PRECISION_TOLERANCES[seg.precision]
        last == full_trace[seg.end_iteration]
    IN  /\ ResidualCriterion(last.residual_norm, tol.residual_tol)
        /\ seg.iterations >= 2 =>
              EigenvalueCriterion(last.eigenvalue,
                                  full_trace[seg.end_iteration - 1].eigenvalue,
                                  tol.eigenvalue_tol)

\* C8 as claimed: a segment reported with converged = true has a last record
\* that satisfies both the eigenvalue-change and the residual criterion.
C8_ConvergedImpliesBothCriteria ==
    \A k \in 1..Len(precision_segments) :
        precision_segments[k].converged => BothCriteria(k)

\* C8 as amended: a segment reported with converged = true has a last record
\* that either is not the tier's first and satisfies both criteria, or has
\* relative_error <= target_error (the target test sets converged = true
\* without the dual test).
C8_ConvergedImpliesBothOrTarget ==
    \A k \in 1..Len(precision_segments) :
        precision_segments[k].converged =>
            \/ precision_segments[k].iterations >= 2 /\ BothCriteria(k)
            \/ Le(precision_segments[k].end_error, target_error)

\* a segment is converged by the dual test with the target not reached
C8_Witness ==
    /\ Len(precision_segments) >= 1
    /\ precision_segments[1].converged
    /\ ~ Le(precision_segments[1].end_error, target_error)
    /\ precision_segments[1].iterations >= 2

\* C9: _check_convergence returns is_converged = true exactly when the
\* eigenvalue change is strictly below eigenvalue_tol and the residual norm is
\* strictly below residual_tol of the named tier; a value equal to its
\* tolerance does not count; PowerMethodTracer._check_convergence returns the
\* same on the same arguments.
C9_CheckConvergenceIffBoth ==
    pc \in {"cascading_checked", "checked"} =>
        LET tol == PRECISION_TOLERANCES[cc_args.precision_name]
            change_ok == EigenvalueCriterion(cc_args.eigenvalue,
                                             cc_args.eigenvalue_old,
                                             tol.eigenvalue_tol)
            residual_ok == ResidualCriterion(cc_args.residual_norm,
                                             tol.residual_tol)
        IN  /\ cc_result.is_converged <=> (change_ok /\ residual_ok)
            /\ cc_result.residual_norm = cc_args.residual_norm
            /\ ResidualAtTolerance(cc_args.residual_norm, tol.residual_tol)
                  => ~ cc_result.is_converged
            /\ (cc_args.eigenvalue_old = 0
                /\ Eig(cc_args.eigenvalue) = tol.eigenvalue_tol)
                  => ~ cc_result.is_converged
            /\ pc = "checked" => tracer_result = cc_result

\* the eigenvalue did not change and the residual equals the FP32 tolerance:
\* both classes answer "not converged"
C9_Witness ==
    /\ pc = "checked"
    /\ cc_args.precision_name = "FP32"
    /\ cc_args.eigenvalue = cc_args.eigenvalue_old
    /\ ResidualAtTolerance(cc_args.residual_norm, Dec(1, 5))
    /\ ~ cc_result.is_converged
    /\ ~ tracer_result.is_converged

\* C10: on the first iteration of every call of a tier the dual test is not
\* made: the first record never declares dual convergence, the test of a
\* later record uses the eigenvalue of the record before it in the same tier,
\* and the first record holds the residual norm computed in that iteration.
C10_FirstIterationSkipsDualTest ==
    (pc \in {"segment", "returned"} /\ trace # << >>) =>
        LET n == Len(trace)
            tol == PRECISION_TOLERANCES[CurrentTier.name]
        IN  /\ trace[1].iteration = 0
            /\ n = 1 => ~ is_converged /\ seg_exit # "dual"
            /\ (n = 1 /\ seg_exit # "null_norm") =>
                  trace[1].residual_norm = OutcomeAt(sched, steps).residual_norm
            /\ (n >= 2 /\ seg_exit # "null_norm") =>
                  (is_converged <=>
                      /\ EigenvalueCriterion(trace[n].eigenvalue,
                                             trace[n - 1].eigenvalue,
                                             tol.eigenvalue_tol)
                      /\ ResidualCriterion(trace[n].residual_norm,
                                           tol.residual_tol))

\* a tier entered by escalation recorded its first iteration with the
\* eigenvalue the tier before ended on and a residual below the tolerance,
\* and did not declare convergence
C10_Witness ==
    /\ pc = "segment"
    /\ current_precision_idx >= 1
    /\ Len(trace) = 1
    /\ full_trace # << >>
    /\ trace[1].eigenvalue = full_trace[Len(full_trace)].eigenvalue
    /\ ResidualCriterion(trace[1].residual_norm,
                         PRECISION_TOLERANCES[CurrentTier.name].residual_tol)
    /\ ~ is_converged

(***************************************************************************)
(* Stagnation                                                              *)
(***************************************************************************)
\* |previous residual norm - current residual norm| < 1e-10
SmallChange(previous, current) ==
    Lt(Res(Abs(previous.residual_norm - current.residual_norm)), Dec(1, 10))

\* this step appends a record to the records of the running tier
RecordsNow == pc = "segment" /\ Len(trace') = Len(trace) + 1

\* C11: the stagnation counter counts consecutive non-improving iterations:
\* after each iteration but the first of a tier it is one more than before
\* when the residual norm moved by less than 1e-10 and zero otherwise; the
\* first iteration leaves it at zero; it stays within 0..max_stagnant.
C11_StagnationCounter ==
    [][ /\ pc \in {"segment", "returned"} =>
              stagnant_count \in 0..CurrentTier.max_stagnant
        /\ RecordsNow =>
              IF trace = << >>
              THEN stagnant_count = 0 /\ stagnant_count' = 0
              ELSE IF SmallChange(trace[Len(trace)], trace'[Len(trace')])
                   THEN stagnant_count' = stagnant_count + 1
                   ELSE stagnant_count' = 0 ]_vars

\* a counter of at least two was reset by a residual that went up by 1e-10
\* exactly
C11_Witness ==
    /\ pc = "segment"
    /\ Len(trace) >= 4
    /\ stagnant_count = 0
    /\ LET n == Len(trace)
       IN  /\ trace[n - 1].residual_norm = trace[n - 2].residual_norm
           /\ trace[n - 2].residual_norm = trace[n - 3].residual_norm
           /\ trace[n].residual_norm = trace[n - 1].residual_norm + 1

\* the residual norm moved by less than 1e-10 over each of the last
\* max_stagnant iterations of the running tier
StagnantRun ==
    LET n == Len(trace)
        m == CurrentTier.max_stagnant
    IN  /\ n >= m + 1
        /\ \A i \in (n - m)..(n - 1) : SmallChange(trace[i], trace[i + 1])

\* C12 as claimed: max_stagnant consecutive iterations without improvement
\* end the tier's loop, the segment is sealed with converged = false and the
\* controller goes on to the next tier.
C12_StagnationEscalates ==
    [][ (pc \in {"segment", "returned"} /\ StagnantRun) =>
            /\ pc = "returned"
            /\ ~ converged
            /\ SealedNow
            /\ ~ precision_segments'[Len(precision_segments')].converged
            /\ current_precision_idx' = current_precision_idx + 1
            /\ pc' = "loop" ]_vars

\* C12: max_stagnant consecutive iterations without improvement end the
\* tier's loop. When at that iteration neither the dual criterion holds nor
\* the relative error is <= target_error, the segment is sealed with
\* converged = false and the tier index moves on by one; when one of the two
\* holds the segment is sealed with converged = true.
C12_StagnationEscalatesUnlessConverged ==
    [][ (pc \in {"segment", "returned"} /\ StagnantRun) =>
            LET last == trace[Len(trace)]
                met == is_converged \/ Le(last.relative_error, target_error)
            IN  /\ pc = "returned"
                /\ converged <=> met
                /\ SealedNow
                /\ precision_segments'[Len(precision_segments')].converged
                       <=> met
                /\ ~ met => /\ current_precision_idx'
                                  = current_precision_idx + 1
                            /\ pc' = "loop"
                            /\ stop_reason' = "none" ]_vars

\* the first tier stagnated for max_stagnant iterations, was sealed with
\* converged = false, and the second tier is running on its vector
C12_Witness ==
    /\ pc = "segment"
    /\ current_precision_idx = 1
    /\ Len(precision_segments) = 1
    /\ ~ precision_segments[1].converged
    /\ precision_segments[1].iterations = PRECISION_CASCADE[1].max_stagnant + 1
    /\ \A i \in 1..PRECISION_CASCADE[1].max_stagnant :
           SmallChange(full_trace[i], full_trace[i + 1])
    /\ trace # << >>

(***************************************************************************)
(* Near-null iterate                                                       *)
(***************************************************************************)
\* C13: when the 2-norm of the product is below 1e-10 the tier's loop stops
\* at once: no record is appended for that iteration, the call returns the
\* records gathered so far with converged = false and the vector of the last
\* recorded iteration, or the vector it was given when there is no record.
C13_NullNormEndsTier ==
    [][ (pc = "segment" /\ Lt(Res(OutcomeAt(sched, steps + 1).norm), Dec(1, 10)))
          => /\ pc' = "returned"
             /\ trace' = trace
             /\ ~ converged'
             /\ Len(x_returned') = Len(x_returned) + 1
             /\ LET given == x_passed[Len(x_passed)]
                    returned == x_returned'[Len(x_returned')]
                IN  IF trace = << >>
                    THEN returned = given
                    ELSE /\ returned.id = << current_precision_idx + 1,
                                             trace[Len(trace)].iteration >>
                         /\ returned.dtype = given.dtype
             /\ UNCHANGED << full_trace, precision_segments, total_iterations,
                             current_precision_idx >> ]_vars

\* a tier returned after a near-null product with records gathered before it
C13_Witness ==
    /\ pc = "returned"
    /\ seg_exit = "null_norm"
    /\ trace # << >>
    /\ ~ converged
    /\ x_returned[Len(x_returned)].id
           = << current_precision_idx + 1, trace[Len(trace)].iteration >>

(***************************************************************************)
(* The trace document                                                      *)
(***************************************************************************)
\* the run ended with the target reached (Converged); every other ending of
\* the loop is Exhausted
EndedConverged == stop_reason = "target_reached"

\* C14: every ending of the loop returns a document with the four parts
\* metadata, precision_segments, trace and summary, and metadata.converged is
\* true exactly when the run ended with the target reached; it is false when
\* the tiers or the budget ran out, a tier recorded nothing, or the trace is
\* empty.
C14_DocumentConvergedIffTargetReached ==
    /\ pc = "done" => ENABLED Return
    /\ pc = "finished" =>
          /\ DOMAIN trace_document
                 = {"metadata", "precision_segments", "trace", "summary"}
          /\ trace_document.precision_segments = precision_segments
          /\ trace_document.trace = full_trace
          /\ trace_document.summary.total_iterations = total_iterations
          /\ trace_document.metadata.converged <=> EndedConverged
          /\ full_trace = << >> => ~ trace_document.metadata.converged

\* a run over two tiers that ended with the target reached
C14_Witness ==
    /\ pc = "finished"
    /\ EndedConverged
    /\ trace_document.metadata.converged
    /\ Len(trace_document.precision_segments) >= 2

\* the budget was used up and no tier returned converged = true
BudgetExhaustedUnconverged ==
    /\ pc = "finished"
    /\ max_iter > 0
    /\ total_iterations = max_iter
    /\ \A k \in DOMAIN precision_segments : ~ precision_segments[k].converged

\* C15 as claimed: when the budget is used up before any tier converges the
\* document reports converged = false and as final error the smallest
\* relative error of the run.
C15_FinalErrorIsBest ==
    BudgetExhaustedUnconverged =>
        /\ ~ trace_document.metadata.converged
        /\ \A i \in DOMAIN trace_document.trace :
               Le(trace_document.metadata.final_error,
                  trace_document.trace[i].relative_error)

\* what the run does: the final error reported is the one of the last record
C15_FinalErrorIsLast ==
    BudgetExhaustedUnconverged =>
        /\ ~ trace_document.metadata.converged
        /\ trace_document.metadata.final_error
               = full_trace[Len(full_trace)].relative_error

\* the budget ran out and an earlier record had a smaller error than the one
\* reported
C15_Witness ==
    /\ BudgetExhaustedUnconverged
    /\ \E i \in DOMAIN full_trace :
           Lt(full_trace[i].relative_error,
              trace_document.metadata.final_error)

\* C16: the sealed segments tile the global trace: the first starts at 0,
\* each one starts where the one before ends, holds iterations =
\* end_iteration - start_iteration >= 1 records, the last one ends at
\* len(trace) = total_iterations; the records of a segment's span carry its
\* tier's name and are the records that tier returned.
C16_SegmentsTileTrace ==
    LET n == Len(precision_segments)
    IN  /\ n >= 1 => precision_segments[1].start_iteration = 0
        /\ \A k \in 1..n :
               LET seg == precision_segments[k]
               IN  /\ seg.iterations = seg.end_iteration - seg.start_iteration
                   /\ seg.iterations >= 1
                   /\ k > 1 => seg.start_iteration
                                  = precision_segments[k - 1].end_iteration
                   /\ seg.end_iteration <= Len(full_trace)
                   /\ \A i \in (seg.start_iteration + 1)..seg.end_iteration :
                          full_trace[i].precision = seg.precision
        /\ Len(full_trace) = total_iterations
        /\ Len(full_trace)
               = IF n = 0 THEN 0 ELSE precision_segments[n].end_iteration
        /\ (pc \in {"loop", "done", "finished"} /\ trace # << >>) =>
               /\ n >= 1
               /\ SubSeq(full_trace, precision_segments[n].start_iteration + 1,
                         precision_segments[n].end_iteration) = trace
        /\ pc = "finished" =>
               trace_document.summary.total_iterations = Len(full_trace)

\* three segments of different lengths were sealed
C16_Witness ==
    /\ pc = "finished"
    /\ Len(precision_segments) = 3
    /\ precision_segments[1].iterations > precision_segments[2].iterations
    /\ precision_segments[3].iterations > 1
    /\ precision_segments[3].end_iteration = Len(trace_document.trace)

\* s is t or t with elements added at its end
IsPrefix(s, t) == Len(s) <= Len(t) /\ SubSeq(t, 1, Len(s)) = s

\* C17: the global trace, the list of sealed segments and, during a tier,
\* the tier's own list of records only grow at the end: what was appended is
\* never changed, removed or moved by a later step.
C17_AppendOnly ==
    [][ /\ IsPrefix(full_trace, full_trace')
        /\ IsPrefix(precision_segments, precision_segments')
        /\ pc = "segment" => IsPrefix(trace, trace') ]_vars

\* a second tier has added records and its segment after those of the first
C17_Witness ==
    /\ Len(precision_segments) >= 2
    /\ precision_segments[2].start_iteration >= 2
    /\ Len(full_trace) >= precision_segments[2].start_iteration + 2
    /\ full_trace[1].precision # full_trace[Len(full_trace)].precision

(***************************************************************************)
(* Timing                                                                  *)
(***************************************************************************)
\* cumulative_time never goes down from one record to the next
Monotone(records) ==
    \A i \in 1..(Len(records) - 1) :
        records[i + 1].cumulative_time >= records[i].cumulative_time

\* C18: with a clock that never goes back, cumulative_time is non-decreasing
\* over the whole trace of the cascade, inside a tier and from the last
\* record of a tier to the first of the next, and over the trace of
\* PowerMethodTracer.run.
C18_CumulativeTimeMonotone ==
    /\ Monotone(full_trace)
    /\ pc \in {"segment", "returned"} => Monotone(full_trace \o trace)
    /\ pc \in {"tracer_loop", "tracer_done", "tracer_finished"} =>
           Monotone(trace)
    /\ Monotone(trace_document.trace)

\* a cascade run whose time stands still inside a tier and jumps at a tier
\* boundary
C18_Witness ==
    /\ pc = "finished"
    /\ Len(precision_segments) >= 2
    /\ \E i \in 1..(Len(full_trace) - 1) :
           /\ full_trace[i].precision # full_trace[i + 1].precision
           /\ full_trace[i + 1].cumulative_time > full_trace[i].cumulative_time
    /\ \E i \in 1..(Len(full_trace) - 1) :
           /\ full_trace[i].precision = full_trace[i + 1].precision
           /\ full_trace[i + 1].cumulative_time = full_trace[i].cumulative_time

\* a record without its timing-derived fields
UntimedRecord(r) ==
    [iteration |-> r.iteration, precision |-> r.precision,
     eigenvalue |-> r.eigenvalue, relative_error |-> r.relative_error,
     residual_norm |-> r.residual_norm, vector_norm |-> r.vector_norm,
     ops_count |-> r.ops_count, bytes_transferred |-> r.bytes_transferred]

\* a segment without its time
UntimedSegment(g) ==
    [precision |-> g.precision, dtype |-> g.dtype,
     dtype_bytes |-> g.dtype_bytes, iterations |-> g.iterations,
     start_iteration |-> g.start_iteration,
     end_iteration |-> g.end_iteration, start_error |-> g.start_error,
     end_error |-> g.end_error, converged |-> g.converged]

\* a document of the cascade without what is derived from the clock
Untimed(doc) ==
    [metadata |-> doc.metadata,
     precision_segments |->
         [k \in DOMAIN doc.precision_segments |->
              UntimedSegment(doc.precision_segments[k])],
     trace |-> [i \in DOMAIN doc.trace |-> UntimedRecord(doc.trace[i])],
     total_iterations |-> doc.summary.total_iterations,
     precision_levels_used |-> doc.summary.precision_levels_used]

\* C19: two runs of the cascade on the same matrix, start vector, tiers,
\* target_error and max_iter under different clocks visit the same tiers,
\* record the same iterations with the same eigenvalue, relative_error,
\* residual_norm and converged values and end the same way; only fields
\* derived from the clock may differ.
C19_TimingDoesNotSteer ==
    (pc = "finished" /\ first_run # NoRun) =>
        /\ Untimed(trace_document) = Untimed(first_run.document)
        /\ stop_reason = first_run.stop_reason

\* two runs over several tiers whose records differ in their times
C19_Witness ==
    /\ pc = "finished"
    /\ first_run # NoRun
    /\ Len(precision_segments) >= 2
    /\ \E i \in DOMAIN full_trace :
           /\ full_trace[i].cumulative_time
                  # first_run.document.trace[i].cumulative_time
           /\ full_trace[i].wall_time # first_run.document.trace[i].wall_time

(***************************************************************************)
(* Operation and byte counts                                               *)
(***************************************************************************)
\* bytes per element of the four tiers
ElementSize(precision_name) ==
    CASE precision_name = "FP8" -> 1
      [] precision_name = "FP16" -> 2
      [] precision_name = "FP32" -> 4
      [] precision_name = "FP64" -> 8

\* C20: every record has ops_count = 2 n n + n and bytes_transferred =
\* (n n + 2 n) times the element size of its tier, 1 for the emulated FP8,
\* 2 for FP16, 4 for FP32, 8 for FP64, whatever the iteration, the clock and
\* the numbers computed; in the cascade and in PowerMethodTracer.run.
C20_OpsAndBytes ==
    LET n == matrix_size
    IN  /\ \A r \in {full_trace[i] : i \in DOMAIN full_trace}
                    \cup (IF pc \in {"segment", "returned"}
                          THEN {trace[i] : i \in DOMAIN trace} ELSE {}) :
               /\ r.ops_count = 2 * n * n + n
               /\ r.bytes_transferred
                      = (n * n + 2 * n) * ElementSize(r.precision)
        /\ (/\ pc \in {"tracer_loop", "tracer_done", "tracer_finished"}
            /\ tracer_args.precision_name \in PrecisionNames) =>
               \A i \in DOMAIN trace :
                   /\ trace[i].ops_count = 2 * n * n + n
                   /\ trace[i].bytes_transferred
                          = (n * n + 2 * n)
                                * ElementSize(tracer_args.precision_name)

\* a run through the four tiers under a clock that gives durations of zero
\* and of three units
C20_Witness ==
    /\ pc = "finished"
    /\ Len(precision_segments) = 4
    /\ matrix_size = 2
    /\ full_trace[1].bytes_transferred = 8
    /\ full_trace[Len(full_trace)].bytes_transferred = 64
    /\ full_trace[1].ops_count = 10
    /\ \E i \in DOMAIN full_trace : full_trace[i].wall_time > 0

(***************************************************************************)
(* Rates of an iteration that took no time                                 *)
(***************************************************************************)
\* the number zero as a rate
ZeroRate == Real(0, 1, 0)

\* both rates of a record are zero when its duration is <= 0, and otherwise
\* the quotient of a count >= 0 by the duration, which is finite and >= 0
RatesDefined(r) ==
    IF r.wall_time <= 0
    THEN /\ r.theoretical_flops = ZeroRate
         /\ r.theoretical_bandwidth_gbps = ZeroRate
    ELSE /\ r.theoretical_flops = Real(r.ops_count, r.wall_time, 0)
         /\ r.theoretical_bandwidth_gbps
                = Real(r.bytes_transferred, r.wall_time, 9)
         /\ r.ops_count >= 0
         /\ r.bytes_transferred >= 0

\* the two clock readings of the coming loop body are the same
NoTimePasses == SecondReading - FirstReading <= 0

\* C21: an iteration whose measured time is <= 0 is recorded like any other,
\* with theoretical_flops = 0 and theoretical_bandwidth_gbps = 0, and the loop
\* goes on unless one of its stop tests ends it; in every record of the
\* cascade and of PowerMethodTracer.run both rates are finite and >= 0.
C21_ZeroDurationRatesAreZero ==
    /\ [](\A i \in DOMAIN full_trace : RatesDefined(full_trace[i]))
    /\ [](\A i \in DOMAIN trace : RatesDefined(trace[i]))
    /\ [][ /\ (/\ pc = "segment"
               /\ ~ Lt(Res(NextOutcome.norm), Dec(1, 10))
               /\ NoTimePasses) =>
                 /\ Len(trace') = Len(trace) + 1
                 /\ SubSeq(trace', 1, Len(trace)) = trace
                 /\ trace'[Len(trace')].wall_time = 0
                 /\ trace'[Len(trace')].theoretical_flops = ZeroRate
                 /\ trace'[Len(trace')].theoretical_bandwidth_gbps = ZeroRate
                 /\ pc' = "segment" <=>
                        /\ ~ is_converged'
                        /\ ~ Le(trace'[Len(trace')].relative_error, target_error)
                        /\ stagnant_count' < CurrentTier.max_stagnant
                        /\ Len(trace') < remaining_iter
           /\ (/\ pc = "tracer_loop"
               /\ ~ Lt(Res(NextOutcome.norm), Dec(1, 10))
               /\ NoTimePasses) =>
                 /\ Len(trace') = Len(trace) + 1
                 /\ SubSeq(trace', 1, Len(trace)) = trace
                 /\ trace'[Len(trace')].wall_time = 0
                 /\ trace'[Len(trace')].theoretical_flops = ZeroRate
                 /\ trace'[Len(trace')].theoretical_bandwidth_gbps = ZeroRate
                 /\ pc' = "tracer_loop" <=>
                        /\ ~ is_converged'
                        /\ ~ threshold_reached'
                        /\ Len(trace') < max_iter ]_vars

\* a tier recorded an iteration of duration zero and went on to the next
\* iteration, and another tier of the same run recorded positive rates
C21_Witness ==
    /\ pc = "finished"
    /\ \E i \in 1..(Len(full_trace) - 1) :
           /\ full_trace[i].wall_time = 0
           /\ full_trace[i].theoretical_flops = ZeroRate
           /\ full_trace[i].theoretical_bandwidth_gbps = ZeroRate
           /\ full_trace[i + 1].precision = full_trace[i].precision
    /\ \E j \in DOMAIN full_trace :
           /\ full_trace[j].wall_time > 0
           /\ full_trace[j].theoretical_flops.num > 0

(***************************************************************************)
(* The low-precision emulator                                              *)
(***************************************************************************)
\* a == b on floats: a nan equals nothing
FloatEq(a, b) == a.cls # "nan" /\ b.cls # "nan" /\ a = b

\* a == b on every element
ArrayEq(a, b) ==
    /\ Len(a) = Len(b)
    /\ \A i \in DOMAIN a : FloatEq(a[i], b[i])

IsZero(v) == v.cls = "finite" /\ v.mag = 0

\* a non-zero multiple of 1/8 whose sign is s
SignedMultipleOfEighth(v, s) ==
    /\ v.cls = "finite"
    /\ v.mag > 0
    /\ v.mag % Eighth = 0
    /\ v.sign = s

\* C22 as claimed: for every array x, simulate_fp8(simulate_fp8(x)) ==
\* simulate_fp8(x); every output element is zero or a multiple of 1/8 with
\* the sign of the input element; magnitudes below 1e-10 give zero.
C22_EmulatorIdempotent ==
    pc = "fp8_twice" =>
        /\ ArrayEq(fp8_twice, fp8_once)
        /\ \A i \in DOMAIN fp8_x :
               /\ \/ IsZero(fp8_once[i])
                  \/ SignedMultipleOfEighth(fp8_once[i], fp8_x[i].sign)
               /\ fp8_x[i].cls \in {"under", "tiny"} => IsZero(fp8_once[i])

\* C22: for every array x without a NaN, simulate_fp8(simulate_fp8(x)) ==
\* simulate_fp8(x). An element that is finite with an eightfold inside the
\* float32 range gives zero or a multiple of 1/8 with its sign, the one
\* nearest to its float32 value, and zero when its magnitude is below 1e-10;
\* an infinite element or one whose float32 value or its eightfold leaves
\* the float32 range gives the infinity of its sign; a NaN gives a NaN,
\* which equals nothing.
C22_EmulatorIdempotentOnNumbers ==
    pc = "fp8_twice" =>
        /\ (\A i \in DOMAIN fp8_x : fp8_x[i].cls # "nan")
               => ArrayEq(fp8_twice, fp8_once)
        /\ Len(fp8_once) = Len(fp8_x)
        /\ Len(fp8_twice) = Len(fp8_x)
        /\ \A i \in DOMAIN fp8_x :
               CASE fp8_x[i].cls \in {"finite", "under", "tiny"} ->
                        /\ \/ IsZero(fp8_once[i])
                           \/ SignedMultipleOfEighth(fp8_once[i], fp8_x[i].sign)
                        /\ 2 * Abs(fp8_once[i].mag - Float32(fp8_x[i]).mag)
                               <= Eighth
                        /\ fp8_x[i].cls \in {"under", "tiny"}
                               => IsZero(fp8_once[i])
                        /\ fp8_twice[i] = fp8_once[i]
                 [] fp8_x[i].cls \in {"huge", "over", "beyond", "inf"} ->
                        /\ fp8_once[i] = Infinity(fp8_x[i].sign)
                        /\ fp8_twice[i] = fp8_once[i]
                 [] OTHER ->
                        /\ fp8_once[i].cls = "nan"
                        /\ fp8_twice[i].cls = "nan"
                        /\ ~ ArrayEq(fp8_twice, fp8_once)

\* an array with -0.1875, a tie that goes to the even multiple -0.25, and a
\* positive number below 1e-10, emulated twice
C22_Witness ==
    /\ pc = "fp8_twice"
    /\ fp8_x = << Finite(-1, (3 * Eighth) \div 2), Tiny(1) >>
    /\ fp8_once = << Finite(-1, 2 * Eighth), Finite(0, 0) >>
    /\ fp8_twice = fp8_once

(***************************************************************************)
(* The thresholds of the tiers                                             *)
(***************************************************************************)
\* the relative error of record r is below the threshold configured for
\* tier number k (from 1)
ThresholdReached(r, k) == Lt(r.relative_error, PRECISION_CASCADE[k].threshold)

\* C23 as claimed: the threshold configured for a tier decides when the tier
\* is left: the tier's loop ends at the iteration whose relative error is
\* below the threshold, a later tier is entered only after the tier before
\* it reached its threshold, and only when the target is not yet reached.
C23_ThresholdDecidesTransition ==
    [][ /\ RecordsNow =>
              LET r == trace'[Len(trace')]
              IN  ThresholdReached(r, current_precision_idx + 1)
                      => pc' = "returned"
        /\ (pc = "loop" /\ pc' = "segment" /\ full_trace # << >>) =>
              LET r == full_trace[Len(full_trace)]
              IN  /\ ThresholdReached(r, current_precision_idx)
                  /\ ~ Le(r.relative_error, target_error) ]_vars

(***************************************************************************)
(* Time to an error                                                        *)
(***************************************************************************)
\* the positions of the records whose relative_error is <= the threshold
Hits(records, error_threshold) ==
    {i \in DOMAIN records :
         /\ ~ IsNaN(records[i].relative_error)
         /\ ~ Lt(error_threshold, records[i].relative_error)}

\* C24: _time_to_error(trace, threshold) returns the cumulative_time of the
\* first record, in the order of the trace, whose relative_error is <= the
\* threshold (an error equal to the threshold counts, and so does the first
\* record), and None when no record meets the threshold or the trace is
\* empty.
C24_TimeToErrorIsFirstHit ==
    pc = "tte_done" =>
        LET records == tte_args.trace
            hits == Hits(records, tte_args.error_threshold)
        IN  /\ hits = {} => tte_result = None
            /\ records = << >> => tte_result = None
            /\ \A i \in hits :
                   (\A j \in 1..(i - 1) : j \notin hits)
                       => tte_result = records[i].cumulative_time
            /\ 1 \in hits => tte_result = records[1].cumulative_time

\* the first record misses, the second has an error equal to the threshold,
\* the third is below it and has another time: the time of the second is
\* returned
C24_Witness ==
    /\ pc = "tte_done"
    /\ Len(tte_args.trace) = 3
    /\ tte_args.error_threshold = Dec(1, 6)
    /\ tte_args.trace[1].relative_error = Dec(5, 1)
    /\ tte_args.trace[2].relative_error = Dec(1, 6)
    /\ tte_args.trace[3].relative_error = Dec(1, 9)
    /\ tte_args.trace[2].cumulative_time # tte_args.trace[3].cumulative_time
    /\ tte_result = tte_args.trace[2].cumulative_time

(***************************************************************************)
(* The document of PowerMethodTracer.run                                   *)
(***************************************************************************)
\* C25: in the document returned by PowerMethodTracer.run, metadata.converged
\* is true if and only if metadata.convergence_iteration is not None; when it
\* is set, convergence_iteration is below max_iter and is the iteration index
\* of the last record of the trace: the loop stops at the iteration at which
\* convergence is first detected.
C25_ConvergedIffConvergenceIteration ==
    pc = "tracer_finished" =>
        LET meta == trace_document.metadata
            records == trace_document.trace
        IN  /\ meta.converged <=> meta.convergence_iteration # None
            /\ meta.convergence_iteration # None =>
                   /\ meta.convergence_iteration \in 0..(max_iter - 1)
                   /\ records # << >>
                   /\ records[Len(records)].iteration
                          = meta.convergence_iteration
                   /\ Len(records) = meta.convergence_iteration + 1

\* a run that converged by the dual test after its first iteration, with
\* iterations to spare and its threshold not reached
C25_Witness ==
    /\ pc = "tracer_finished"
    /\ trace_document.metadata.converged
    /\ trace_document.metadata.convergence_iteration >= 1
    /\ trace_document.metadata.convergence_iteration + 1 < max_iter
    /\ ~ trace_document.metadata.threshold_reached
    /\ Len(trace_document.trace)
           = trace_document.metadata.convergence_iteration + 1

(***************************************************************************)
(* The target error and the converged flag                                 *)
(***************************************************************************)
\* C26: a sealed segment whose last record has relative_error <= target_error
\* has converged = true, also when that record is the tier's first, for which
\* the dual test is not made; so the conjunct "converged and" of run's stop
\* test never changes its outcome: run stops exactly when the last record of
\* the tier has relative_error <= target_error.
C26_TargetImpliesConverged ==
    /\ \A k \in DOMAIN precision_segments :
           LET seg == precision_segments[k]
           IN  /\ seg.end_error = full_trace[seg.end_iteration].relative_error
               /\ Le(seg.end_error, target_error) => seg.converged
    /\ (pc = "returned" /\ trace # << >>) =>
           LET last == trace[Len(trace)]
           IN  /\ Le(last.relative_error, target_error) => converged
               /\ TargetReached <=> Le(last.relative_error, target_error)
               /\ ENABLED TierTargetReached
                      <=> Le(last.relative_error, target_error)

\* a tier after the first was sealed with converged = true on its only
\* record, whose relative error is within the target
C26_Witness ==
    /\ Len(precision_segments) >= 2
    /\ LET seg == precision_segments[Len(precision_segments)]
       IN  /\ seg.iterations = 1
           /\ seg.converged
           /\ Le(seg.end_error, target_error)
    /\ stop_reason = "target_reached"

(***************************************************************************)
(* The shortest stagnating tier                                            *)
(***************************************************************************)
\* C27: a tier that ends by stagnation has recorded at least max_stagnant + 1
\* iterations (11 for FP8, 21 for FP16, 51 for FP32, 101 for FP64), because
\* the counter is not incremented on the tier's first iteration; a tier whose
\* share of the budget is <= max_stagnant never ends by stagnation.
C27_StagnationNeedsOneMoreRecord ==
    pc \in {"segment", "returned"} =>
        /\ trace # << >> => stagnant_count <= Len(trace) - 1
        /\ trace = << >> => stagnant_count = 0
        /\ seg_exit = "stagnant" =>
               /\ Len(trace) >= CurrentTier.max_stagnant + 1
               /\ Len(trace) >= CASE CurrentTier.name = "FP8" -> 11
                                  [] CurrentTier.name = "FP16" -> 21
                                  [] CurrentTier.name = "FP32" -> 51
                                  [] CurrentTier.name = "FP64" -> 101
        /\ remaining_iter <= CurrentTier.max_stagnant
               => seg_exit # "stagnant"

\* the FP64 tier ended by stagnation on its 101st record, after the three
\* tiers before it
C27_Witness ==
    /\ pc = "returned"
    /\ seg_exit = "stagnant"
    /\ CurrentTier.name = "FP64"
    /\ Len(trace) = 101
    /\ Len(precision_segments) = 3

(***************************************************************************)
(* What a tier starts from                                                 *)
(***************************************************************************)
\* C28: a tier starts from the vector the tier before returned and the time
\* elapsed so far, and from nothing else: on entry the stagnation counter is
\* 0, the previous residual norm and the previous eigenvalue are reset and
\* there is no record; so the first record of every tier has iteration 0,
\* leaves the counter at 0 whatever the residual norm of the tier before
\* was, and the records of a segment are numbered 0, 1, 2, ...
C28_TierStartsAfresh ==
    /\ [][ /\ (pc = "loop" /\ pc' = "segment") =>
                 /\ stagnant_count' = 0
                 /\ last_error' = INF
                 /\ eigenvalue_old' = 0
                 /\ iteration' = 0
                 /\ trace' = << >>
                 /\ ~ converged'
                 /\ ~ is_converged'
                 /\ seg_x'.id = IF x_returned = << >> THEN RandomVector.id
                                ELSE x_returned[Len(x_returned)].id
                 /\ full_trace # << >> =>
                        cumulative_time_offset'
                            >= full_trace[Len(full_trace)].cumulative_time
           /\ (RecordsNow /\ trace = << >>) =>
                 /\ trace'[1].iteration = 0
                 /\ stagnant_count' = 0
                 /\ ~ is_converged' ]_vars
    /\ [](\A k \in DOMAIN precision_segments :
              LET seg == precision_segments[k]
              IN  \A i \in 1..seg.iterations :
                      full_trace[seg.start_iteration + i].iteration = i - 1)

\* the first tier stagnated; the second recorded its first iteration, with
\* the residual norm the first tier ended on, and its counter is 0
C28_Witness ==
    /\ pc = "segment"
    /\ current_precision_idx = 1
    /\ Len(precision_segments) = 1
    /\ precision_segments[1].iterations = PRECISION_CASCADE[1].max_stagnant + 1
    /\ ~ precision_segments[1].converged
    /\ Len(trace) = 1
    /\ trace[1].iteration = 0
    /\ trace[1].residual_norm = full_trace[Len(full_trace)].residual_norm
    /\ stagnant_count = 0

(***************************************************************************)
(* When PowerMethodTracer.run stops                                        *)
(***************************************************************************)
\* the dual test of the tracer on record i of its trace, which is not made
\* on the first record
DualAt(records, i, precision_name) ==
    /\ i >= 2
    /\ Tracer_check_convergence(records[i].eigenvalue,
                                records[i - 1].eigenvalue,
                                records[i].residual_norm,
                                precision_name).is_converged

\* relative_error of record i is strictly below the IEEE754 threshold of the
\* precision, when the precision has one
BelowAt(records, i, precision_name) ==
    /\ precision_name \in DOMAIN IEEE754_THRESHOLDS
    /\ Lt(records[i].relative_error, IEEE754_THRESHOLDS[precision_name])

\* C29: PowerMethodTracer.run stops at the first iteration at which the dual
\* criterion holds or relative_error < the IEEE754 threshold of the named
\* precision, the threshold test being made on iteration 0 too: no record
\* before the last one is dual-converged or below the threshold, the flags of
\* the document are those of the last record, and the loop goes on otherwise
\* until max_iter records or a near-null product.
C29_TracerStopsAtFirstHit ==
    /\ [](pc \in {"tracer_loop", "tracer_done", "tracer_finished"} =>
              LET n == Len(trace)
                  name == tracer_args.precision_name
              IN  /\ \A i \in 1..(n - 1) :
                         /\ ~ DualAt(trace, i, name)
                         /\ ~ BelowAt(trace, i, name)
                  /\ pc = "tracer_loop" =>
                         /\ n < max_iter
                         /\ n >= 1 => /\ ~ DualAt(trace, n, name)
                                      /\ ~ BelowAt(trace, n, name)
                  /\ (pc # "tracer_loop" /\ n >= 1) =>
                         /\ converged <=> DualAt(trace, n, name)
                         /\ threshold_reached <=> BelowAt(trace, n, name)
                         /\ converged =>
                                convergence_iteration = trace[n].iteration
                         /\ threshold_reached =>
                                threshold_iteration = trace[n].iteration
                  /\ n = 0 => ~ converged /\ ~ threshold_reached)
    /\ [][ (/\ pc = "tracer_loop"
            /\ pc' = "tracer_done"
            /\ ~ converged'
            /\ ~ threshold_reached') =>
               \/ Len(trace') = max_iter
               \/ Lt(Res(NextOutcome.norm), Dec(1, 10)) ]_vars

\* a run stopped by the threshold on its first record, not converged, with
\* iterations to spare
C29_Witness ==
    /\ pc = "tracer_finished"
    /\ max_iter > 1
    /\ Len(trace_document.trace) = 1
    /\ trace_document.metadata.threshold_reached
    /\ trace_document.metadata.threshold_iteration = 0
    /\ ~ trace_document.metadata.converged
    /\ trace_document.metadata.convergence_iteration = None

(***************************************************************************)
(* The tol argument of PowerMethodTracer.run                               *)
(***************************************************************************)
\* C30: two runs of PowerMethodTracer.run that differ only in tol record the
\* same iterations and return the same converged, convergence_iteration,
\* threshold_reached and threshold_iteration; tol is returned as
\* metadata.tolerance and appears nowhere else in the document.
C30_TolDoesNotSteer ==
    (pc = "tracer_finished" /\ first_run # NoRun) =>
        LET doc == trace_document
            first == first_run.document
        IN  /\ doc.metadata.tolerance = tracer_args.tol
            /\ first.metadata.tolerance = OtherTol(tracer_args.tol)
            /\ doc.metadata.tolerance # first.metadata.tolerance
            /\ Len(doc.trace) = Len(first.trace)
            /\ doc.trace = first.trace
            /\ doc.metadata.converged = first.metadata.converged
            /\ doc.metadata.convergence_iteration
                   = first.metadata.convergence_iteration
            /\ doc.metadata.threshold_reached
                   = first.metadata.threshold_reached
            /\ doc.metadata.threshold_iteration
                   = first.metadata.threshold_iteration
            /\ [doc.metadata EXCEPT !.tolerance = first.metadata.tolerance]
                   = first.metadata
            /\ doc.summary = first.summary

\* two runs with tol 1e-10 and 0.5 that recorded several iterations, over
\* which the eigenvalue moved by less than 0.5 and by more than 1e-10, and
\* that converged at the same iteration
C30_Witness ==
    /\ pc = "tracer_finished"
    /\ first_run # NoRun
    /\ tracer_args.tol = Dec(5, 1)
    /\ first_run.document.metadata.tolerance = Dec(1, 10)
    /\ Len(trace) >= 3
    /\ \E i \in 1..(Len(trace) - 1) :
           /\ trace[i + 1].eigenvalue # trace[i].eigenvalue
           /\ Lt(Eig(trace[i + 1].eigenvalue - trace[i].eigenvalue), Dec(5, 1))
    /\ trace_document.metadata.converged
    /\ first_run.document.metadata.converged

====
